---- MODULE Spec2Model ----
(***************************************************************************)
(* The hybrid recommendation engine of backend/services/recommendationEngine *)
(* (HybridRecommendationEngine, first class of the .js file; the .ts file    *)
(* where it differs).  JavaScript numbers are modelled as exact rationals    *)
(* <<numerator, denominator>>, time as whole minutes.                        *)
(***************************************************************************)
EXTENDS Integers, Sequences, FiniteSets, TLC

(***************************************************************************)
(* Bounds of the model.                                                     *)
(***************************************************************************)
\* number of user actions the tracking service records in one behaviour
MaxActions == 1
\* number of 24-hour clock ticks in one behaviour
MaxTicks == 1
\* number of generateRecommendations calls in one behaviour
MaxRequests == 2
\* the longest list a scorer emits in the calls of single functions
MaxListLen == 3

(***************************************************************************)
(* Rational numbers.                                                        *)
(***************************************************************************)
Abs(x) == IF x < 0 THEN -x ELSE x

RECURSIVE GCD(_, _)
GCD(a, b) == IF b = 0 THEN a ELSE GCD(b, a % b)

Rat(n, d) ==
    LET s == IF d < 0 THEN -1 ELSE 1
        g == GCD(Abs(n), Abs(d))
    IN  <<(s * n) \div g, (s * d) \div g>>

R(n) == <<n, 1>>

\* the operations cancel common factors before they multiply, to keep the
\* intermediate integers small
RAdd(a, b) ==
    LET g == GCD(a[2], b[2])
    IN  Rat(a[1] * (b[2] \div g) + b[1] * (a[2] \div g), (a[2] \div g) * b[2])
RSub(a, b) == RAdd(a, <<-b[1], b[2]>>)
RMul(a, b) ==
    LET g1 == GCD(Abs(a[1]), b[2])
        g2 == GCD(Abs(b[1]), a[2])
    IN  Rat((a[1] \div g1) * (b[1] \div g2), (a[2] \div g2) * (b[2] \div g1))
RDiv(a, b) == RMul(a, IF b[1] < 0 THEN <<-b[2], -b[1]>> ELSE <<b[2], b[1]>>)
RLt(a, b) ==
    LET g == GCD(a[2], b[2])
    IN  a[1] * (b[2] \div g) < b[1] * (a[2] \div g)
RLe(a, b) ==
    LET g == GCD(a[2], b[2])
    IN  a[1] * (b[2] \div g) <= b[1] * (a[2] \div g)
RMax(a, b) == IF RLt(a, b) THEN b ELSE a
RMin(a, b) == IF RLt(b, a) THEN b ELSE a
RAbs(a) == <<Abs(a[1]), a[2]>>
RFloor(a) == a[1] \div a[2]
RCeil(a) == -((-a[1]) \div a[2])
Zero == R(0)
One == R(1)

RECURSIVE RSum(_)
RSum(s) == IF s = <<>> THEN Zero ELSE RAdd(Head(s), RSum(Tail(s)))

RECURSIVE RMaxOf(_)
RMaxOf(s) == IF Len(s) = 1 THEN s[1] ELSE RMax(Head(s), RMaxOf(Tail(s)))

RECURSIVE Pow2(_)
Pow2(k) == IF k = 0 THEN 1 ELSE 2 * Pow2(k - 1)

\* Math.exp(-Math.log(2) * x): 2^(-x), exact for the whole x the clock produces
ExpHalfLife(x) ==
    CASE x[2] = 1 /\ x[1] >= 0 -> Rat(1, Pow2(x[1]))
      [] x[2] = 1 /\ x[1] < 0 -> R(Pow2(-x[1]))

\* Math.log(n) / Math.log(10000) for n a power of ten
LogBase10000(n) ==
    CASE n = 1 -> Rat(0, 4)
      [] n = 10 -> Rat(1, 4)
      [] n = 100 -> Rat(2, 4)
      [] n = 1000 -> Rat(3, 4)
      [] n = 10000 -> Rat(4, 4)
      [] n = 100000 -> Rat(5, 4)

RangeOf(s) == {s[i] : i \in DOMAIN s}
Contains(s, x) == \E i \in DOMAIN s : s[i] = x

\* an optional value: None is the JavaScript undefined, Some(x) a defined value
None == <<>>
Some(x) == <<x>>
IsSome(o) == o # <<>>
TheValue(o) == o[1]

RECURSIVE Reverse(_)
Reverse(s) == IF s = <<>> THEN <<>> ELSE Reverse(Tail(s)) \o <<Head(s)>>

\* Array.prototype.slice(0, n) for n >= 0
Take(s, n) == SubSeq(s, 1, IF n < Len(s) THEN n ELSE Len(s))

(***************************************************************************)
(* Program constants.  Times are in minutes.                                *)
(***************************************************************************)
DEFAULT_SEQUENCE_WINDOW == 20
DEFAULT_SESSION_TIMEOUT == 30
RECENCY_HALF_LIFE_HOURS == 24
cacheTimeout == 300
\* limit passed to TrackingService.getUserActions
ActionLimit == 1000
MinutesPerHour == 60
MinutesPerDay == 1440
\* new Date().getFullYear() for every instant of the bounded clock
CurrentYear == 2024

(***************************************************************************)
(* The catalog: candidate items with their metadata.  The catalog source   *)
(* of getAvailableMovies is the literal [] in the source; a deployment wires *)
(* a real one in.  Both are modelled (variable catalog).                    *)
(***************************************************************************)
Movie(id, genres, directors, actors, year, runtime, avg, count, pop) ==
    [id |-> id, genres |-> genres, directors |-> directors, actors |-> actors,
     releaseYear |-> year, runtime |-> runtime, averageRating |-> avg,
     ratingCount |-> count, popularity |-> pop]

Catalog ==
    << Movie(1, <<"Action">>, <<"Nolan">>, <<"Bale">>, 2010, 120, 10, 99999, 100),
       Movie(2, <<"Action", "Drama">>, <<"Nolan">>, <<>>, 1975, 0, 7, 99, 60),
       Movie(3, <<"Comedy">>, <<"Villeneuve">>, <<"Bale">>, 2020, 100, 4, 9, 20) >>

EmptyCatalog == <<>>

MovieIds == {Catalog[i].id : i \in DOMAIN Catalog}
MovieById(id) == Catalog[CHOOSE i \in DOMAIN Catalog : Catalog[i].id = id]

\* an id MatrixFactorization may predict that is no candidate
ForeignMovieId == 99

Users == {"u1", "u2"}

(***************************************************************************)
(* TrackingService: the action log, oldest first.                           *)
(***************************************************************************)
MetadataOf(m) ==
    [genres |-> m.genres, directors |-> m.directors, actors |-> m.actors,
     runtime |-> m.runtime, releaseYear |-> m.releaseYear]

Action(u, movieId, type, value, t) ==
    [userId |-> u, movieId |-> movieId, actionType |-> type, value |-> value,
     timestamp |-> t, metadata |-> MetadataOf(MovieById(movieId))]

\* the (actionType, value) pairs a client submits in the model
TrackInputs == {<<"rate", 9>>, <<"add_watchlist", 1>>}

\* getUserActions(userId, limit, actionType?): newest first
getUserActions(log, userId, limit, actionType) ==
    LET mine == SelectSeq(log, LAMBDA a :
                    a.userId = userId /\ (actionType = "" \/ a.actionType = actionType))
    IN  Take(Reverse(mine), limit)

\* getRecentActions(userId): newest first
getRecentActions(log, userId) ==
    Reverse(SelectSeq(log, LAMBDA a : a.userId = userId))

(***************************************************************************)
(* Shared numerics.                                                         *)
(***************************************************************************)
normalizeScore(score) ==
    IF RLt(score, R(1)) THEN Zero
    ELSE IF RLt(R(10), score) THEN One
    ELSE RDiv(RSub(score, R(1)), R(9))

\* normalizeScore of recommendationEngine.ts: Math.max(0, Math.min(1, score))
normalizeScore_ts(score) == RMax(Zero, RMin(One, score))

normalizeRatingSignal(value) ==
    LET normalized == RDiv(RSub(R(value), Rat(11, 2)), Rat(9, 2))
    IN  RMax(R(-1), RMin(One, normalized))

calculatePopularityScore(movie) ==
    LET popularityScore == RDiv(R(movie.popularity), R(100))
        ratingScore == RDiv(R(movie.averageRating), R(10))
        ratingCountScore == LogBase10000(movie.ratingCount + 1)
    IN  RAdd(RAdd(RMul(popularityScore, Rat(4, 10)), RMul(ratingScore, Rat(4, 10))),
             RMul(ratingCountScore, Rat(2, 10)))

RatingValues(ratings) == [i \in DOMAIN ratings |-> R(ratings[i].value)]

\* the sample variance: the squared deviations divided by n - 1
calculateRatingVarianceSample(ratings) ==
    IF Len(ratings) < 2 THEN Zero
    ELSE LET n == R(Len(ratings))
             mean == RDiv(RSum(RatingValues(ratings)), n)
             sq == [i \in DOMAIN ratings |->
                      RMul(RSub(R(ratings[i].value), mean), RSub(R(ratings[i].value), mean))]
         IN  RDiv(RSum(sq), R(Len(ratings) - 1))

calculateRatingVariance(ratings) ==
    IF Len(ratings) < 2 THEN Zero
    ELSE LET n == R(Len(ratings))
             mean == RDiv(RSum(RatingValues(ratings)), n)
             sq == [i \in DOMAIN ratings |->
                      RMul(RSub(R(ratings[i].value), mean), RSub(R(ratings[i].value), mean))]
         IN  RDiv(RSum(sq), n)

\* actions.sort((a, b) => a.timestamp - b.timestamp): stable, ascending
RECURSIVE InsertByTime(_, _)
InsertByTime(x, s) ==
    IF s = <<>> THEN <<x>>
    ELSE IF x.timestamp < Head(s).timestamp THEN <<x>> \o s
    ELSE <<Head(s)>> \o InsertByTime(x, Tail(s))

RECURSIVE SortByTime(_)
SortByTime(s) ==
    IF s = <<>> THEN <<>>
    ELSE InsertByTime(s[Len(s)], SortByTime(SubSeq(s, 1, Len(s) - 1)))

\* the loop of groupActionsBySessions over the sorted actions
RECURSIVE SessionLoop(_, _, _, _)
SessionLoop(actions, sessions, currentSession, sessionTimeout) ==
    IF actions = <<>>
    THEN IF Len(currentSession) > 0 THEN Append(sessions, currentSession) ELSE sessions
    ELSE LET action == Head(actions)
         IN  IF Len(currentSession) = 0
             THEN SessionLoop(Tail(actions), sessions, <<action>>, sessionTimeout)
             ELSE IF action.timestamp - currentSession[Len(currentSession)].timestamp
                        <= sessionTimeout
                  THEN SessionLoop(Tail(actions), sessions,
                                   Append(currentSession, action), sessionTimeout)
                  ELSE SessionLoop(Tail(actions), Append(sessions, currentSession),
                                   <<action>>, sessionTimeout)

\* the grouping without the sort by timestamp
groupActionsBySessionsUnsorted(actions, sessionTimeout) ==
    SessionLoop(actions, <<>>, <<>>, sessionTimeout)

groupActionsBySessions(actions, sessionTimeout) ==
    SessionLoop(SortByTime(actions), <<>>, <<>>, sessionTimeout)

\* hours between a timestamp and the clock, as a rational
HoursSince(clock, timestamp) == Rat(clock - timestamp, MinutesPerHour)

RECURSIVE MaxTimestamp(_)
MaxTimestamp(actions) ==
    IF Len(actions) = 1 THEN actions[1].timestamp
    ELSE LET rest == MaxTimestamp(Tail(actions))
         IN  IF actions[1].timestamp > rest THEN actions[1].timestamp ELSE rest

RECURSIVE MinTimestamp(_)
MinTimestamp(actions) ==
    IF Len(actions) = 1 THEN actions[1].timestamp
    ELSE LET rest == MinTimestamp(Tail(actions))
         IN  IF actions[1].timestamp < rest THEN actions[1].timestamp ELSE rest

calculateRecencyScore(actions, clock) ==
    IF Len(actions) = 0 THEN Zero
    ELSE LET hoursSince == HoursSince(clock, MaxTimestamp(actions))
             score == ExpHalfLife(RDiv(hoursSince, R(RECENCY_HALF_LIFE_HOURS)))
         IN  RMin(One, RMax(Zero, score))

calculateRecencyWeight(timestamp, index, clock) ==
    LET hoursSince == HoursSince(clock, timestamp)
        decay == ExpHalfLife(RDiv(hoursSince, R(RECENCY_HALF_LIFE_HOURS)))
        positionBoost == RSub(One, RMin(Rat(3, 10), Rat(index, DEFAULT_SEQUENCE_WINDOW * 2)))
    IN  RMul(decay, positionBoost)

actionTypeBoost(actionType, value) ==
    CASE actionType = "watchTime" -> RMin(Rat(12, 10), Rat(value, 60))
      [] actionType = "rate" -> Rat(IF value = 0 THEN 5 ELSE value, 10)
      [] actionType = "add_watchlist" -> Rat(7, 10)
      [] actionType = "view" -> Rat(5, 10)
      [] OTHER -> Rat(4, 10)

(***************************************************************************)
(* Preference maps: JavaScript objects used as string-keyed maps, with     *)
(* their insertion order.                                                   *)
(***************************************************************************)
EmptyMap == [keys |-> <<>>, val |-> <<>>]

MapHas(m, k) == Contains(m.keys, k)

\* m[k] = (m[k] || 0) + v
MapAdd(m, k, v) ==
    IF MapHas(m, k)
    THEN [m EXCEPT !.val[k] = RAdd(@, v)]
    ELSE [keys |-> Append(m.keys, k), val |-> (k :> v) @@ m.val]

AttrOf(metadata, attr) ==
    CASE attr = "genres" -> metadata.genres
      [] attr = "directors" -> metadata.directors
      [] attr = "actors" -> metadata.actors

\* the (name, weight) pairs the forEach loops visit, in order
RECURSIVE WeightedNames(_, _)
WeightedNames(names, weight) ==
    IF names = <<>> THEN <<>>
    ELSE <<[name |-> Head(names), weight |-> weight]>> \o WeightedNames(Tail(names), weight)

RECURSIVE MapAddAll(_, _)
MapAddAll(m, pairs) ==
    IF pairs = <<>> THEN m
    ELSE MapAddAll(MapAdd(m, Head(pairs).name, Head(pairs).weight), Tail(pairs))

RECURSIVE RatingPairs(_, _, _)
RatingPairs(ratings, attr, counting) ==
    IF ratings = <<>> THEN <<>>
    ELSE WeightedNames(AttrOf(Head(ratings).metadata, attr),
                       IF counting THEN One ELSE normalizeRatingSignal(Head(ratings).value))
         \o RatingPairs(Tail(ratings), attr, counting)

\* normalizePreferenceMap: acc[key] = preferences[key] / (counts[key] || 1)
normalizePreferenceMap(preferences, counts) ==
    [keys |-> preferences.keys,
     val |-> [k \in RangeOf(preferences.keys) |->
                RDiv(preferences.val[k],
                     IF MapHas(counts, k) /\ counts.val[k] # Zero THEN counts.val[k] ELSE One)]]

\* the runtimeSignals / yearSignals pushed for ratings with a positive signal
RECURSIVE PositiveSignals(_, _)
PositiveSignals(ratings, field) ==
    IF ratings = <<>> THEN <<>>
    ELSE LET rating == Head(ratings)
             ratingSignal == normalizeRatingSignal(rating.value)
             v == IF field = "runtime" THEN rating.metadata.runtime
                  ELSE rating.metadata.releaseYear
         IN  (IF v # 0 /\ RLt(Zero, ratingSignal)
              THEN <<[value |-> v, weight |-> ratingSignal]>> ELSE <<>>)
             \o PositiveSignals(Tail(ratings), field)

SignalWeightedSum(signals) ==
    RSum([i \in DOMAIN signals |-> RMul(R(signals[i].value), signals[i].weight)])

SignalTotalWeight(signals) ==
    LET total == RSum([i \in DOMAIN signals |-> signals[i].weight])
    IN  IF total = Zero THEN One ELSE total

calculateRuntimePreference(runtimeSignals) ==
    IF Len(runtimeSignals) = 0
    THEN [min |-> R(70), max |-> R(190), ideal |-> R(120)]
    ELSE LET ideal == RDiv(SignalWeightedSum(runtimeSignals), SignalTotalWeight(runtimeSignals))
         IN  [min |-> RMax(R(50), RSub(ideal, R(40))), max |-> RAdd(ideal, R(50)),
              ideal |-> ideal]

calculateYearPreference(yearSignals) ==
    IF Len(yearSignals) = 0
    THEN [min |-> R(1980), max |-> R(CurrentYear)]
    ELSE LET ideal == RDiv(SignalWeightedSum(yearSignals), SignalTotalWeight(yearSignals))
         IN  [min |-> RMax(R(1950), R(RFloor(RSub(ideal, R(15))))),
              max |-> RMin(R(CurrentYear), R(RCeil(RAdd(ideal, R(15)))))]

calculateUserPreferences(ratings) ==
    [genres |-> normalizePreferenceMap(
                    MapAddAll(EmptyMap, RatingPairs(ratings, "genres", FALSE)),
                    MapAddAll(EmptyMap, RatingPairs(ratings, "genres", TRUE))),
     directors |-> normalizePreferenceMap(
                    MapAddAll(EmptyMap, RatingPairs(ratings, "directors", FALSE)),
                    MapAddAll(EmptyMap, RatingPairs(ratings, "directors", TRUE))),
     actors |-> normalizePreferenceMap(
                    MapAddAll(EmptyMap, RatingPairs(ratings, "actors", FALSE)),
                    MapAddAll(EmptyMap, RatingPairs(ratings, "actors", TRUE))),
     runtimePreference |-> calculateRuntimePreference(PositiveSignals(ratings, "runtime")),
     yearPreference |-> calculateYearPreference(PositiveSignals(ratings, "year")),
     avgRating |-> RDiv(RSum(RatingValues(ratings)),
                        R(IF Len(ratings) = 0 THEN 1 ELSE Len(ratings))),
     ratingVariance |-> calculateRatingVariance(ratings),
     ratingThreshold |-> Rat(13, 2)]

\* the defined preferenceMap[item] values, in item order
RECURSIVE DefinedScores(_, _)
DefinedScores(items, preferenceMap) ==
    IF items = <<>> THEN <<>>
    ELSE (IF MapHas(preferenceMap, Head(items))
          THEN <<preferenceMap.val[Head(items)]>> ELSE <<>>)
         \o DefinedScores(Tail(items), preferenceMap)

calculatePreferenceScore(items, preferenceMap, useMax) ==
    IF Len(items) = 0 \/ Len(preferenceMap.keys) = 0 THEN Rat(1, 2)
    ELSE LET scores == DefinedScores(items, preferenceMap)
             adjustedScores == [i \in DOMAIN scores |-> RDiv(RAdd(scores[i], One), R(2))]
         IN  IF Len(scores) = 0 THEN Rat(45, 100)
             ELSE IF useMax THEN RMaxOf(adjustedScores)
             ELSE RDiv(RSum(adjustedScores), R(Len(adjustedScores)))

calculateRuntimeScore(movie, runtimePreference) ==
    IF movie.runtime = 0 THEN Rat(1, 2)
    ELSE IF RLt(R(movie.runtime), runtimePreference.min)
            \/ RLt(runtimePreference.max, R(movie.runtime)) THEN Rat(2, 10)
    ELSE LET distance == RAbs(RSub(R(movie.runtime), runtimePreference.ideal))
             maxDistance == RMax(RSub(runtimePreference.ideal, runtimePreference.min),
                                 RSub(runtimePreference.max, runtimePreference.ideal))
         IN  RSub(One, RDiv(distance, IF maxDistance = Zero THEN One ELSE maxDistance))

calculateYearScore(movie, yearPreference) ==
    IF movie.releaseYear = 0 THEN Rat(1, 2)
    ELSE IF RLt(R(movie.releaseYear), yearPreference.min)
            \/ RLt(yearPreference.max, R(movie.releaseYear)) THEN Rat(3, 10)
    ELSE One

calculateContentSimilarity(movie, userPreferences) ==
    LET genreScore == calculatePreferenceScore(movie.genres, userPreferences.genres, FALSE)
        directorScore == calculatePreferenceScore(movie.directors, userPreferences.directors, TRUE)
        actorScore == calculatePreferenceScore(movie.actors, userPreferences.actors, FALSE)
        runtimeScore == calculateRuntimeScore(movie, userPreferences.runtimePreference)
        yearScore == calculateYearScore(movie, userPreferences.yearPreference)
        score == RSum(<<RMul(genreScore, Rat(4, 10)), RMul(directorScore, Rat(2, 10)),
                        RMul(actorScore, Rat(2, 10)), RMul(runtimeScore, Rat(1, 10)),
                        RMul(yearScore, Rat(1, 10))>>)
    IN  normalizeScore(RMul(score, R(10)))

(***************************************************************************)
(* Sequence and rule scoring.                                               *)
(***************************************************************************)
\* the (name, actionWeight) pairs buildSessionSignals adds for one attribute;
\* index is the 0-based position of Head(actions) in recentActions
RECURSIVE SessionPairs(_, _, _, _)
SessionPairs(actions, attr, index, clock) ==
    IF actions = <<>> THEN <<>>
    ELSE LET action == Head(actions)
             recencyWeight == calculateRecencyWeight(action.timestamp, index, clock)
             actionWeight == RMul(recencyWeight,
                                  actionTypeBoost(action.actionType, action.value))
         IN  WeightedNames(AttrOf(action.metadata, attr), actionWeight)
             \o SessionPairs(Tail(actions), attr, index + 1, clock)

buildSessionSignals(actions, clock) ==
    [genres |-> MapAddAll(EmptyMap, SessionPairs(actions, "genres", 0, clock)),
     directors |-> MapAddAll(EmptyMap, SessionPairs(actions, "directors", 0, clock)),
     actors |-> MapAddAll(EmptyMap, SessionPairs(actions, "actors", 0, clock)),
     totalWeight |-> RSum([i \in DOMAIN actions |->
                        RMul(calculateRecencyWeight(actions[i].timestamp, i - 1, clock),
                             actionTypeBoost(actions[i].actionType, actions[i].value))])]

calculateSessionSimilarity(movie, sessionSignals) ==
    IF sessionSignals.totalWeight = Zero THEN Rat(4, 10)
    ELSE LET genreScore == calculatePreferenceScore(movie.genres, sessionSignals.genres, FALSE)
             directorScore ==
                 calculatePreferenceScore(movie.directors, sessionSignals.directors, TRUE)
             actorScore == calculatePreferenceScore(movie.actors, sessionSignals.actors, FALSE)
             score == RSum(<<RMul(genreScore, Rat(5, 10)), RMul(directorScore, Rat(3, 10)),
                             RMul(actorScore, Rat(2, 10))>>)
         IN  normalizeScore(RMul(score, R(10)))

\* Object.entries(genres).sort(([, a], [, b]) => b - a): stable, descending by value
RECURSIVE InsertByValueDesc(_, _, _)
InsertByValueDesc(k, s, m) ==
    IF s = <<>> THEN <<k>>
    ELSE IF RLt(m.val[Head(s)], m.val[k]) THEN <<k>> \o s
    ELSE <<Head(s)>> \o InsertByValueDesc(k, Tail(s), m)

RECURSIVE SortKeysByValueDesc(_, _)
SortKeysByValueDesc(keys, m) ==
    IF keys = <<>> THEN <<>>
    ELSE InsertByValueDesc(keys[Len(keys)],
                           SortKeysByValueDesc(SubSeq(keys, 1, Len(keys) - 1), m), m)

HasPreferences(userProfile) == "preferences" \in DOMAIN userProfile

\* null (None) when the profile carries no preferences
extractRulePreferences(userProfile) ==
    IF ~HasPreferences(userProfile) THEN None
    ELSE LET preferences == userProfile.preferences
         IN  Some([preferredGenres |->
                       Take(SortKeysByValueDesc(preferences.genres.keys, preferences.genres), 3),
                   minRating |-> preferences.ratingThreshold,
                   yearRange |-> preferences.yearPreference,
                   runtimeRange |-> preferences.runtimePreference])

calculateRuleScore(movie, rulePreferences) ==
    LET genreMatches == SelectSeq(movie.genres,
                            LAMBDA g : Contains(rulePreferences.preferredGenres, g))
        genrePart == IF Len(rulePreferences.preferredGenres) > 0
                     THEN RMin(Rat(4, 10), RMul(R(Len(genreMatches)), Rat(15, 100)))
                     ELSE Zero
        yearPart == IF RLe(rulePreferences.yearRange.min, R(movie.releaseYear))
                       /\ RLe(R(movie.releaseYear), rulePreferences.yearRange.max)
                    THEN Rat(1, 10) ELSE Zero
        runtimePart == IF movie.runtime # 0
                          /\ RLe(rulePreferences.runtimeRange.min, R(movie.runtime))
                          /\ RLe(R(movie.runtime), rulePreferences.runtimeRange.max)
                       THEN Rat(1, 10) ELSE Zero
        ratingPart == IF RLe(rulePreferences.minRating, R(movie.averageRating))
                      THEN Rat(1, 10) ELSE Zero
        score == RSum(<<Rat(4, 10), genrePart, yearPart, runtimePart, ratingPart>>)
    IN  normalizeScore(RMul(score, R(10)))

(***************************************************************************)
(* The four scorers.  raises: the body of the scorer's try block throws.    *)
(***************************************************************************)
ScoreRecord(movieId, movie, score, source) ==
    [movieId |-> movieId, movie |-> movie, score |-> score, source |-> source]

popularityFallback(movies, source) ==
    [i \in DOMAIN movies |->
        ScoreRecord(movies[i].id, Some(movies[i]), calculatePopularityScore(movies[i]), source)]

\* a content scorer whose catch block answers with the popularity fallback
contentBasedRecommendationFallingBack(availableMovies, userProfile, raises) ==
    IF raises \/ ~HasPreferences(userProfile) \/ userProfile.ratingCount = 0
    THEN popularityFallback(availableMovies, "content-cold")
    ELSE [i \in DOMAIN availableMovies |->
            ScoreRecord(availableMovies[i].id, Some(availableMovies[i]),
                calculateContentSimilarity(availableMovies[i], userProfile.preferences),
                "content-based")]

contentBasedRecommendation(availableMovies, userProfile, raises) ==
    IF raises THEN <<>>
    ELSE IF ~HasPreferences(userProfile) \/ userProfile.ratingCount = 0
    THEN popularityFallback(availableMovies, "content-cold")
    ELSE [i \in DOMAIN availableMovies |->
            ScoreRecord(availableMovies[i].id, Some(availableMovies[i]),
                calculateContentSimilarity(availableMovies[i], userProfile.preferences),
                "content-based")]

sequenceBasedRecommendation(availableMovies, userProfile, clock, raises) ==
    IF raises THEN <<>>
    ELSE IF Len(userProfile.recentActions) = 0
    THEN popularityFallback(availableMovies, "sequence-cold")
    ELSE LET recentSignals == buildSessionSignals(userProfile.recentActions, clock)
         IN  [i \in DOMAIN availableMovies |->
                ScoreRecord(availableMovies[i].id, Some(availableMovies[i]),
                    calculateSessionSimilarity(availableMovies[i], recentSignals), "sequence")]

ruleBasedRecommendation(availableMovies, userProfile, raises) ==
    IF raises THEN <<>>
    ELSE LET rulePreferences == extractRulePreferences(userProfile)
         IN  IF ~IsSome(rulePreferences)
             THEN popularityFallback(availableMovies, "rule-cold")
             ELSE [i \in DOMAIN availableMovies |->
                    ScoreRecord(availableMovies[i].id, Some(availableMovies[i]),
                        calculateRuleScore(availableMovies[i], TheValue(rulePreferences)),
                        "rule-based")]

\* availableMovies.find(m => m.id === id)
FindMovie(availableMovies, id) ==
    IF \E i \in DOMAIN availableMovies : availableMovies[i].id = id
    THEN Some(availableMovies[
             CHOOSE i \in DOMAIN availableMovies :
                 /\ availableMovies[i].id = id
                 /\ \A j \in 1..(i - 1) : availableMovies[j].id # id])
    ELSE None

\* a map that resolves a prediction for an unknown id to the first candidate
MatrixRecordsResolvingAll(predictions, availableMovies) ==
    [i \in DOMAIN predictions |->
        ScoreRecord(predictions[i].movieId,
                    IF FindMovie(availableMovies, predictions[i].movieId) = None
                    THEN Some(availableMovies[1])
                    ELSE FindMovie(availableMovies, predictions[i].movieId),
                    normalizeScore(predictions[i].score), "collaborative-matrix")]

\* the map over a non-empty MatrixFactorization.predict result
MatrixRecords(predictions, availableMovies) ==
    [i \in DOMAIN predictions |->
        ScoreRecord(predictions[i].movieId, FindMovie(availableMovies, predictions[i].movieId),
                    normalizeScore(predictions[i].score), "collaborative-matrix")]

\* findSimilarUsers: returns [] on every path
findSimilarUsers(userRatings) == <<>>

\* calculateCollaborativeScore over the similar users' ratings of movieId
calculateCollaborativeScore(movieId, similarUsers, log) ==
    IF Len(similarUsers) = 0 THEN Zero
    ELSE LET rated == SelectSeq(similarUsers, LAMBDA su :
                 \E i \in DOMAIN log : /\ log[i].userId = su.userId
                                       /\ log[i].actionType = "rate"
                                       /\ log[i].movieId = movieId)
             valueOf(su) == LET acts == getUserActions(log, su.userId, ActionLimit, "rate")
                                hit == CHOOSE i \in DOMAIN acts :
                                          /\ acts[i].movieId = movieId
                                          /\ \A j \in 1..(i - 1) : acts[j].movieId # movieId
                            IN  R(acts[hit].value)
             weightedSum == RSum([i \in DOMAIN rated |-> RMul(valueOf(rated[i]), rated[i].similarity)])
             totalWeight == RSum([i \in DOMAIN rated |-> rated[i].similarity])
         IN  IF RLt(Zero, totalWeight) THEN normalizeScore(RDiv(weightedSum, totalWeight))
             ELSE Zero

userBasedCollaborativeFiltering(availableMovies, similarUsers, log, raises) ==
    IF raises THEN <<>>
    ELSE IF Len(similarUsers) = 0
    THEN popularityFallback(availableMovies, "collaborative-cold")
    ELSE [i \in DOMAIN availableMovies |->
            ScoreRecord(availableMovies[i].id, Some(availableMovies[i]),
                calculateCollaborativeScore(availableMovies[i].id, similarUsers, log),
                "collaborative-user")]

(***************************************************************************)
(* Weight policy.                                                           *)
(***************************************************************************)
\* rec[name] || fallback, for a property the record may lack
FieldOr(rec, name, fallback) == IF name \in DOMAIN rec THEN rec[name] ELSE fallback

\* normalizeWeights without the division by the total
normalizeWeightsUndivided(weights) ==
    [content |-> RMax(Zero, weights.content),
     collaborative |-> RMax(Zero, weights.collaborative),
     sequence |-> RMax(Zero, weights.sequence),
     rule |-> RMax(Zero, weights.rule)]

normalizeWeights(weights) ==
    LET sum == RSum(<<weights.content, weights.collaborative, weights.sequence, weights.rule>>)
        total == IF sum = Zero THEN One ELSE sum
    IN  [content |-> RMax(Zero, RDiv(weights.content, total)),
         collaborative |-> RMax(Zero, RDiv(weights.collaborative, total)),
         sequence |-> RMax(Zero, RDiv(weights.sequence, total)),
         rule |-> RMax(Zero, RDiv(weights.rule, total))]

\* calculateWeights with the vectors of the first and the last tier exchanged
calculateWeightsReversed(userProfile) ==
    LET ratingCount == FieldOr(userProfile, "ratingCount", 0)
        sessionDepth == FieldOr(userProfile, "sessionDepth", Zero)
        recencyScore == FieldOr(userProfile, "recencyScore", Zero)
    IN  IF ratingCount < 5
        THEN normalizeWeights([content |-> Rat(25, 100), collaborative |-> Rat(45, 100),
                 sequence |-> RAdd(Rat(2, 10), RMul(recencyScore, Rat(1, 10))),
                 rule |-> Rat(1, 10)])
        ELSE IF ratingCount < 25
        THEN normalizeWeights([content |-> Rat(35, 100), collaborative |-> Rat(25, 100),
                 sequence |-> RAdd(Rat(25, 100), RMul(sessionDepth, Rat(5, 100))),
                 rule |-> Rat(15, 100)])
        ELSE normalizeWeights([content |-> Rat(4, 10), collaborative |-> Rat(1, 10),
                 sequence |-> RAdd(Rat(2, 10), RMul(recencyScore, Rat(1, 10))),
                 rule |-> Rat(3, 10)])

\* calculateWeights with the first threshold taken inclusively (ratingCount <= 5)
calculateWeightsInclusive(userProfile) ==
    LET ratingCount == FieldOr(userProfile, "ratingCount", 0)
        sessionDepth == FieldOr(userProfile, "sessionDepth", Zero)
        recencyScore == FieldOr(userProfile, "recencyScore", Zero)
    IN  IF ratingCount <= 5
        THEN normalizeWeights([content |-> Rat(4, 10), collaborative |-> Rat(1, 10),
                 sequence |-> RAdd(Rat(2, 10), RMul(recencyScore, Rat(1, 10))),
                 rule |-> Rat(3, 10)])
        ELSE IF ratingCount < 25
        THEN normalizeWeights([content |-> Rat(35, 100), collaborative |-> Rat(25, 100),
                 sequence |-> RAdd(Rat(25, 100), RMul(sessionDepth, Rat(5, 100))),
                 rule |-> Rat(15, 100)])
        ELSE normalizeWeights([content |-> Rat(25, 100), collaborative |-> Rat(45, 100),
                 sequence |-> RAdd(Rat(2, 10), RMul(recencyScore, Rat(1, 10))),
                 rule |-> Rat(1, 10)])

calculateWeights(userProfile) ==
    LET ratingCount == FieldOr(userProfile, "ratingCount", 0)
        sessionDepth == FieldOr(userProfile, "sessionDepth", Zero)
        recencyScore == FieldOr(userProfile, "recencyScore", Zero)
    IN  IF ratingCount < 5
        THEN normalizeWeights([content |-> Rat(4, 10), collaborative |-> Rat(1, 10),
                 sequence |-> RAdd(Rat(2, 10), RMul(recencyScore, Rat(1, 10))),
                 rule |-> Rat(3, 10)])
        ELSE IF ratingCount < 25
        THEN normalizeWeights([content |-> Rat(35, 100), collaborative |-> Rat(25, 100),
                 sequence |-> RAdd(Rat(25, 100), RMul(sessionDepth, Rat(5, 100))),
                 rule |-> Rat(15, 100)])
        ELSE normalizeWeights([content |-> Rat(25, 100), collaborative |-> Rat(45, 100),
                 sequence |-> RAdd(Rat(2, 10), RMul(recencyScore, Rat(1, 10))),
                 rule |-> Rat(1, 10)])

(***************************************************************************)
(* Fusion.                                                                  *)
(***************************************************************************)
MapIndex(map, movieId) == CHOOSE i \in DOMAIN map : map[i].movieId = movieId
MapHasMovie(map, movieId) == \E i \in DOMAIN map : map[i].movieId = movieId

\* ingestScores without the check for a resolved movie
RECURSIVE ingestScoresUnresolved(_, _, _, _)
ingestScoresUnresolved(map, scores, scoreKey, includeExplanations) ==
    IF scores = <<>> THEN map
    ELSE LET item == Head(scores)
             seeded == IF MapHasMovie(map, item.movieId) THEN map
                       ELSE Append(map,
                                [movieId |-> item.movieId, movie |-> item.movie,
                                 contentScore |-> Zero, collaborativeScore |-> Zero,
                                 sequenceScore |-> Zero, ruleScore |-> Zero,
                                 explanation |-> IF includeExplanations THEN Some(<<>>)
                                                 ELSE None])
             k == MapIndex(seeded, item.movieId)
         IN  ingestScoresUnresolved([seeded EXCEPT ![k][scoreKey] = item.score],
                                    Tail(scores), scoreKey, includeExplanations)

\* the movieScoreMap (in insertion order) after ingestScores(scores, scoreKey)
RECURSIVE ingestScores(_, _, _, _)
ingestScores(map, scores, scoreKey, includeExplanations) ==
    IF scores = <<>> THEN map
    ELSE LET item == Head(scores)
             seeded == IF MapHasMovie(map, item.movieId) THEN map
                       ELSE Append(map,
                                [movieId |-> item.movieId, movie |-> item.movie,
                                 contentScore |-> Zero, collaborativeScore |-> Zero,
                                 sequenceScore |-> Zero, ruleScore |-> Zero,
                                 explanation |-> IF includeExplanations THEN Some(<<>>)
                                                 ELSE None])
             k == MapIndex(seeded, item.movieId)
         IN  IF ~IsSome(item.movie)
             THEN ingestScores(map, Tail(scores), scoreKey, includeExplanations)
             ELSE ingestScores([seeded EXCEPT ![k][scoreKey] = item.score],
                               Tail(scores), scoreKey, includeExplanations)

generateExplanations(item, weights) ==
    (IF RLt(Rat(7, 10), item.contentScore) /\ RLt(Rat(2, 10), weights.content)
     THEN <<"STRONG_CONTENT">> ELSE <<>>)
    \o (IF RLt(Rat(7, 10), item.collaborativeScore) /\ RLt(Rat(2, 10), weights.collaborative)
        THEN <<"SIMILAR_USERS">> ELSE <<>>)
    \o (IF RLt(Rat(7, 10), item.sequenceScore) /\ RLt(Rat(2, 10), weights.sequence)
        THEN <<"SESSION_FLOW">> ELSE <<>>)
    \o (IF RLt(Rat(6, 10), item.ruleScore) /\ RLt(Rat(1, 10), weights.rule)
        THEN <<"ONBOARDING_MATCH">> ELSE <<>>)

\* the fused score without the weights
HybridScoreUnweighted(item, weights) ==
    RSum(<<item.contentScore, item.collaborativeScore, item.sequenceScore, item.ruleScore>>)

HybridScore(item, weights) ==
    RSum(<<RMul(item.contentScore, weights.content),
           RMul(item.collaborativeScore, weights.collaborative),
           RMul(item.sequenceScore, weights.sequence),
           RMul(item.ruleScore, weights.rule)>>)

combineScores(contentScores, collaborativeScores, sequenceScores, ruleScores, weights, includeExplanations) ==
    LET m1 == ingestScores(<<>>, contentScores, "contentScore", includeExplanations)
        m2 == ingestScores(m1, collaborativeScores, "collaborativeScore", includeExplanations)
        m3 == ingestScores(m2, sequenceScores, "sequenceScore", includeExplanations)
        m4 == ingestScores(m3, ruleScores, "ruleScore", includeExplanations)
    IN  [i \in DOMAIN m4 |->
            [movieId |-> m4[i].movieId, movie |-> m4[i].movie,
             contentScore |-> m4[i].contentScore,
             collaborativeScore |-> m4[i].collaborativeScore,
             sequenceScore |-> m4[i].sequenceScore, ruleScore |-> m4[i].ruleScore,
             explanation |-> IF includeExplanations /\ IsSome(m4[i].explanation)
                             THEN Some(generateExplanations(m4[i], weights))
                             ELSE m4[i].explanation,
             score |-> HybridScore(m4[i], weights),
             weights |-> weights, source |-> "hybrid"]]

\* lines 255-258 with the four ingestScores calls made in the given order;
\* outputs[k] is the list of strategy k, order a permutation of 1..4
Strategies == <<"contentScore", "collaborativeScore", "sequenceScore", "ruleScore">>

RECURSIVE IngestInOrder(_, _, _, _)
IngestInOrder(map, order, outputs, includeExplanations) ==
    IF order = <<>> THEN map
    ELSE IngestInOrder(ingestScores(map, outputs[Head(order)], Strategies[Head(order)], includeExplanations),
                       Tail(order), outputs, includeExplanations)

combineScoresInOrder(order, outputs, weights, includeExplanations) ==
    LET m4 == IngestInOrder(<<>>, order, outputs, includeExplanations)
    IN  [i \in DOMAIN m4 |->
            [movieId |-> m4[i].movieId, movie |-> m4[i].movie,
             contentScore |-> m4[i].contentScore,
             collaborativeScore |-> m4[i].collaborativeScore,
             sequenceScore |-> m4[i].sequenceScore, ruleScore |-> m4[i].ruleScore,
             explanation |-> IF includeExplanations /\ IsSome(m4[i].explanation)
                             THEN Some(generateExplanations(m4[i], weights))
                             ELSE m4[i].explanation,
             score |-> HybridScore(m4[i], weights),
             weights |-> weights, source |-> "hybrid"]]

\* an array filled in the order the promises settle
PromiseAllInCompletionOrder(outputs, completion) == [i \in DOMAIN completion |-> outputs[completion[i]]]

\* lines 42-47: Promise.all puts each scorer's list at the scorer's position,
\* in whatever order the scorers settle
RECURSIVE PromiseAllSettling(_, _, _)
PromiseAllSettling(results, outputs, completion) ==
    IF completion = <<>> THEN results
    ELSE PromiseAllSettling([results EXCEPT ![Head(completion)] = outputs[Head(completion)]],
                            outputs, Tail(completion))

PromiseAll(outputs, completion) == PromiseAllSettling([i \in DOMAIN outputs |-> <<>>], outputs, completion)

(***************************************************************************)
(* Diversity filter, cutoff and ranking.                                    *)
(***************************************************************************)
\* [...list].sort((a, b) => b.score - a.score): stable, descending
RECURSIVE InsertByScoreDesc(_, _)
InsertByScoreDesc(x, s) ==
    IF s = <<>> THEN <<x>>
    ELSE IF RLt(Head(s).score, x.score) THEN <<x>> \o s
    ELSE <<Head(s)>> \o InsertByScoreDesc(x, Tail(s))

RECURSIVE SortByScoreDesc(_)
SortByScoreDesc(s) ==
    IF s = <<>> THEN <<>>
    ELSE InsertByScoreDesc(s[Len(s)], SortByScoreDesc(SubSeq(s, 1, Len(s) - 1)))

Overlaps(names, selected) == \E i \in DOMAIN names : names[i] \in selected

\* the for loop with a continue for records that overlap in genre and director
RECURSIVE DiversityLoopDropping(_, _, _, _)
DiversityLoopDropping(sorted, selectedGenres, selectedDirectors, diversityFactor) ==
    IF sorted = <<>> THEN <<>>
    ELSE LET recommendation == Head(sorted)
             genres == IF IsSome(recommendation.movie)
                       THEN TheValue(recommendation.movie).genres ELSE <<>>
             directors == IF IsSome(recommendation.movie)
                          THEN TheValue(recommendation.movie).directors ELSE <<>>
             rest == DiversityLoopDropping(Tail(sorted), selectedGenres \cup RangeOf(genres),
                                           selectedDirectors \cup RangeOf(directors),
                                           diversityFactor)
         IN  IF Overlaps(genres, selectedGenres) /\ Overlaps(directors, selectedDirectors)
             THEN rest
             ELSE <<recommendation>> \o rest

\* the for loop of applyDiversityFilter over the sorted recommendations
RECURSIVE DiversityLoop(_, _, _, _)
DiversityLoop(sorted, selectedGenres, selectedDirectors, diversityFactor) ==
    IF sorted = <<>> THEN <<>>
    ELSE LET recommendation == Head(sorted)
             genres == IF IsSome(recommendation.movie)
                       THEN TheValue(recommendation.movie).genres ELSE <<>>
             directors == IF IsSome(recommendation.movie)
                          THEN TheValue(recommendation.movie).directors ELSE <<>>
             diversityPenalty ==
                 RAdd(IF Overlaps(genres, selectedGenres) THEN Rat(3, 10) ELSE Zero,
                      IF Overlaps(directors, selectedDirectors) THEN Rat(2, 10) ELSE Zero)
             factor == RSub(One, RMul(diversityPenalty, diversityFactor))
         IN  <<[recommendation EXCEPT !.score = RMul(@, factor)]>>
             \o DiversityLoop(Tail(sorted), selectedGenres \cup RangeOf(genres),
                              selectedDirectors \cup RangeOf(directors), diversityFactor)

applyDiversityFilter(recommendations, diversityFactor) ==
    IF diversityFactor = Zero \/ RLe(diversityFactor, Zero) THEN recommendations
    ELSE DiversityLoop(SortByScoreDesc(recommendations), {}, {}, diversityFactor)

\* applyDiversityFilter of recommendationEngine.ts: only a diversityFactor of
\* exactly 0 skips the stage
applyDiversityFilter_ts(recommendations, diversityFactor) ==
    IF diversityFactor = Zero THEN recommendations
    ELSE DiversityLoop(SortByScoreDesc(recommendations), {}, {}, diversityFactor)

\* Array.prototype.slice(0, count); a negative count counts from the end
SliceTo(s, count) ==
    IF count >= 0 THEN Take(s, count)
    ELSE Take(s, IF Len(s) + count > 0 THEN Len(s) + count ELSE 0)

\* the ranking without the cutoff
CutoffAndRankUnfiltered(diversifiedScores, minScore, count) ==
    SliceTo(SortByScoreDesc(diversifiedScores), count)

\* .filter(item => item.score >= minScore).sort(...).slice(0, count)
CutoffAndRank(diversifiedScores, minScore, count) ==
    SliceTo(SortByScoreDesc(SelectSeq(diversifiedScores, LAMBDA item : RLe(minScore, item.score))),
            count)

(***************************************************************************)
(* Request options, the cache key and the cached text.                      *)
(***************************************************************************)
\* the options objects of the model, each the list of its own properties in
\* the order the caller built them
NoOptions == <<>>
TopTwo == << <<"count", 2>>, <<"minScore", Zero>> >>
TopTwoPermuted == << <<"minScore", Zero>>, <<"count", 2>> >>
AllButLast ==
    << <<"count", -1>>, <<"minScore", Zero>>, <<"excludeRated", FALSE>>,
       <<"excludeWatchlist", FALSE>> >>
Diverse ==
    << <<"excludeWatchlist", FALSE>>, <<"minScore", Rat(3, 10)>>,
       <<"diversityFactor", One>>, <<"includeExplanations", TRUE>> >>

OptionObjects == {NoOptions, TopTwo, TopTwoPermuted, AllButLast, Diverse}

HasOption(options, name) == \E i \in DOMAIN options : options[i][1] = name

\* const { name = fallback } = options
OptionOr(options, name, fallback) ==
    IF HasOption(options, name)
    THEN options[CHOOSE i \in DOMAIN options : options[i][1] = name][2]
    ELSE fallback

\* JSON.stringify(options): the own properties in insertion order
stringifyOptions(options) == options

\* `recommendations:${userId}:${JSON.stringify(options)}`
cacheKey(userId, options) == <<"recommendations", userId, stringifyOptions(options)>>

\* a serializer that writes an undefined explanation as an empty one
stringifyRecordKeepingUndefined(rec) ==
    << <<"movieId", rec.movieId>>, <<"movie", TheValue(rec.movie)>>,
       <<"contentScore", rec.contentScore>>,
       <<"collaborativeScore", rec.collaborativeScore>>,
       <<"sequenceScore", rec.sequenceScore>>, <<"ruleScore", rec.ruleScore>>,
       <<"explanation", IF IsSome(rec.explanation) THEN TheValue(rec.explanation) ELSE <<>>>>,
       <<"score", rec.score>>, <<"weights", rec.weights>>, <<"source", rec.source>> >>

\* JSON.stringify of one record: its properties in order, undefined ones left out
stringifyRecord(rec) ==
    << <<"movieId", rec.movieId>>, <<"movie", TheValue(rec.movie)>>,
       <<"contentScore", rec.contentScore>>,
       <<"collaborativeScore", rec.collaborativeScore>>,
       <<"sequenceScore", rec.sequenceScore>>, <<"ruleScore", rec.ruleScore>> >>
    \o (IF IsSome(rec.explanation)
        THEN << <<"explanation", TheValue(rec.explanation)>> >> ELSE <<>>)
    \o << <<"score", rec.score>>, <<"weights", rec.weights>>, <<"source", rec.source>> >>

JSONstringify(recommendations) ==
    [i \in DOMAIN recommendations |-> stringifyRecord(recommendations[i])]

\* the value of a property of a parsed object, None when the object lacks it
PropertyOf(obj, name) ==
    IF \E i \in DOMAIN obj : obj[i][1] = name
    THEN Some(obj[CHOOSE i \in DOMAIN obj : obj[i][1] = name][2])
    ELSE None

parseRecord(obj) ==
    [movieId |-> TheValue(PropertyOf(obj, "movieId")),
     movie |-> PropertyOf(obj, "movie"),
     contentScore |-> TheValue(PropertyOf(obj, "contentScore")),
     collaborativeScore |-> TheValue(PropertyOf(obj, "collaborativeScore")),
     sequenceScore |-> TheValue(PropertyOf(obj, "sequenceScore")),
     ruleScore |-> TheValue(PropertyOf(obj, "ruleScore")),
     explanation |-> PropertyOf(obj, "explanation"),
     score |-> TheValue(PropertyOf(obj, "score")),
     weights |-> TheValue(PropertyOf(obj, "weights")),
     source |-> TheValue(PropertyOf(obj, "source"))]

JSONparse(text) == [i \in DOMAIN text |-> parseRecord(text[i])]

(***************************************************************************)
(* Profile builder.                                                         *)
(***************************************************************************)
\* the profile getUserProfile returns from its catch block
degenerateProfile(userId) == [userId |-> userId, ratingCount |-> 0, recentActions |-> <<>>]

\* Math.floor((Date.now() - firstRating) / day), taken after the second read
timeActiveOf(ratings, clock) ==
    LET firstRating == IF Len(ratings) > 0 THEN MinTimestamp(ratings) ELSE clock
    IN  (clock - firstRating) \div MinutesPerDay

\* the profile getUserProfile returns when its three reads succeed; clock is
\* Date.now() after the third read
getUserProfile(userId, ratings, recentActions, timeActive, allActions, clock) ==
    LET sessions == groupActionsBySessions(allActions, DEFAULT_SESSION_TIMEOUT)
        preferences == calculateUserPreferences(ratings)
    IN  [userId |-> userId,
         ratingCount |-> Len(ratings),
         avgRating |-> IF Len(ratings) > 0
                       THEN RDiv(RSum(RatingValues(ratings)), R(Len(ratings))) ELSE Zero,
         ratingVariance |-> preferences.ratingVariance,
         timeActive |-> timeActive,
         engagement |-> IF Len(sessions) > 0 THEN Rat(Len(allActions), Len(sessions))
                        ELSE Zero,
         lastActive |-> IF Len(ratings) > 0 THEN Some(MaxTimestamp(ratings)) ELSE None,
         sessionDepth |-> IF Len(sessions) > 0
                          THEN RMin(One, Rat(Len(sessions[Len(sessions)]), 10)) ELSE Zero,
         recencyScore |-> calculateRecencyScore(recentActions, clock),
         recentActions |-> Take(recentActions, DEFAULT_SEQUENCE_WINDOW),
         preferences |-> preferences]

\* recommendationEngine.ts, getUserProfile: the three reads are awaited with
\* no try block around them, so a read that raises rejects the call; failing
\* is the set of reads that raise.  Of the profile, the fields that need only
\* the reads are modelled.
ProfileReads == {"ratings", "recentActions", "allActions"}

getUserProfile_ts(userId, actions, failing, clock) ==
    LET ratings == getUserActions(actions, userId, ActionLimit, "rate")
        recentActions == getRecentActions(actions, userId)
    IN  IF failing # {} THEN [rejects |-> TRUE]
        ELSE [rejects |-> FALSE,
              profile |->
                [userId |-> userId,
                 ratingCount |-> Len(ratings),
                 avgRating |-> IF Len(ratings) > 0
                               THEN RDiv(RSum(RatingValues(ratings)), R(Len(ratings)))
                               ELSE Zero,
                 timeActive |-> timeActiveOf(ratings, clock),
                 lastActive |-> IF Len(ratings) > 0 THEN Some(MaxTimestamp(ratings))
                                ELSE None,
                 recentActions |-> Take(recentActions, DEFAULT_SEQUENCE_WINDOW)]]

(***************************************************************************)
(* State.                                                                   *)
(***************************************************************************)
VARIABLES
    catalog,    \* what the catalog source yields (allMovies)
    log,        \* TrackingService: the recorded actions, oldest first
    now,        \* Date.now(), in minutes
    cache,      \* Redis: cache key -> cached text
    faulty,     \* the scorers whose try block throws on this deployment's data
    model,      \* what MatrixFactorization.predict does (a PredictOutcomes)
    calls,      \* the calls the clients make, in order: (userId, options, whether
                \* the client waits for the calls before it to settle)
    req,        \* the generateRecommendations calls, by call number
    unit        \* a function of the engine called on its own: its name, its
                \* arguments and, once it has returned, its value

vars == <<catalog, log, now, cache, faulty, model, calls, req, unit>>

Requests == 1..MaxRequests

Scorers == {"content", "collaborative", "sequence", "rule"}

\* the outcomes of MatrixFactorization.predict(userId, movieIds) in the model
PredictOutcomes == {"raise", "none", "all", "foreign"}

\* the raw (1..10 scale) prediction for a movie
PredictedScore(movieId) == R(2 + 3 * (movieId % 3))

predict(outcome, movieIds) ==
    CASE outcome = "none" -> <<>>
      [] outcome = "all" ->
            [i \in DOMAIN movieIds |->
                [movieId |-> movieIds[i], score |-> PredictedScore(movieIds[i])]]
      [] outcome = "foreign" ->
            [i \in DOMAIN movieIds |->
                [movieId |-> movieIds[i], score |-> PredictedScore(movieIds[i])]]
            \o <<[movieId |-> ForeignMovieId, score |-> R(10)]>>

\* no function is called on its own
NoUnit == [fn |-> "none"]

IdleRequest ==
    [pc |-> "idle", userId |-> "", options |-> <<>>, ratings |-> <<>>,
     recentActions |-> <<>>, timeActive |-> 0, userProfile |-> [userId |-> ""],
     weights |-> [content |-> Zero], excluded |-> {}, availableMovies |-> <<>>,
     contentScores |-> <<>>, sequenceScores |-> <<>>,
     ruleScores |-> <<>>, collaborativeScores |-> <<>>, hybridScores |-> <<>>,
     result |-> <<>>, path |-> "", did |-> {}, issuedAfter |-> {}, issuedAt |-> 0]

\* the calls of one behaviour
Call(userId, options, afterPrevious) == <<userId, options, afterPrevious>>

Workloads ==
    { <<Call("u1", NoOptions, TRUE), Call("u1", NoOptions, TRUE)>>,
      <<Call("u1", AllButLast, TRUE), Call("u1", AllButLast, TRUE)>>,
      <<Call("u1", TopTwo, TRUE), Call("u1", TopTwoPermuted, TRUE)>>,
      <<Call("u1", Diverse, TRUE), Call("u2", Diverse, TRUE)>> }

\* what TrackingService holds when the behaviour starts: nothing, or what
\* user u1 did the day before
SeedLogs ==
    { <<>>,
      <<Action("u1", 3, "rate", 2, -MinutesPerDay),
        Action("u1", 2, "add_watchlist", 1, -MinutesPerDay)>> }

\* the actions recorded since the behaviour started
Tracked(actions) == SelectSeq(actions, LAMBDA a : a.timestamp >= 0)

Init ==
    /\ catalog \in {EmptyCatalog, Catalog}
    /\ log \in SeedLogs
    /\ now = 0
    /\ cache = <<>>
    /\ faulty = {}
    /\ model \in {"all", "raise"}
    /\ calls \in Workloads
    /\ req = [r \in Requests |-> IdleRequest]
    /\ unit = NoUnit

(***************************************************************************)
(* generateRecommendations, one action per await.  q is the call's record.  *)
(***************************************************************************)
\* what is left of a call once it has settled: its arguments and its outcome
Settled(q) ==
    [IdleRequest EXCEPT !.userId = q.userId, !.options = q.options, !.did = q.did,
                        !.issuedAfter = q.issuedAfter, !.issuedAt = q.issuedAt]

\* return list
Returned(q, list, path) == [Settled(q) EXCEPT !.pc = "done", !.result = list, !.path = path]

\* the catch block of generateRecommendations: log and rethrow
Rejected(q, path) == [Settled(q) EXCEPT !.pc = "rejected", !.path = path]

\* scorers with no try block of their own: what one throws reaches the catch
\* block of generateRecommendations
AfterMoviesPropagating(q, movies, clock) ==
    IF Len(movies) = 0 THEN Returned(q, <<>>, "empty")
    ELSE IF faulty \cap {"content", "sequence", "rule"} # {}
    THEN Rejected([q EXCEPT !.did = @ \cup {"scorer"}], "scorer")
    ELSE [q EXCEPT
            !.pc = "predict",
            !.availableMovies = movies,
            !.contentScores = contentBasedRecommendation(movies, q.userProfile, FALSE),
            !.sequenceScores = sequenceBasedRecommendation(movies, q.userProfile, clock, FALSE),
            !.ruleScores = ruleBasedRecommendation(movies, q.userProfile, FALSE),
            !.did = @ \cup {"scorer"}]

\* the scorers called without the empty check of lines 38-40
AfterMoviesUnchecked(q, movies, clock) ==
    [q EXCEPT
        !.pc = "predict",
        !.availableMovies = movies,
        !.contentScores =
            contentBasedRecommendation(movies, q.userProfile, "content" \in faulty),
        !.sequenceScores =
            sequenceBasedRecommendation(movies, q.userProfile, clock, "sequence" \in faulty),
        !.ruleScores = ruleBasedRecommendation(movies, q.userProfile, "rule" \in faulty),
        !.did = @ \cup {"scorer"}]

\* lines 38-47: the empty check, then the four scorers are called; the three
\* without an await run to completion, collaborativeFiltering waits for predict
AfterMovies(q, movies, clock) ==
    IF Len(movies) = 0 THEN Returned(q, <<>>, "empty")
    ELSE [q EXCEPT
            !.pc = "predict",
            !.availableMovies = movies,
            !.contentScores =
                contentBasedRecommendation(movies, q.userProfile, "content" \in faulty),
            !.sequenceScores =
                sequenceBasedRecommendation(movies, q.userProfile, clock, "sequence" \in faulty),
            !.ruleScores = ruleBasedRecommendation(movies, q.userProfile, "rule" \in faulty),
            !.did = @ \cup {"scorer"}]

\* allMovies.filter(movie => !excludedMovieIds.has(movie.id))
FilterExcluded(allMovies, excludedMovieIds) ==
    SelectSeq(allMovies, LAMBDA movie : movie.id \notin excludedMovieIds)

\* lines 35-37 and getAvailableMovies up to its first read
AfterProfile(q, userProfile, allMovies, clock) ==
    LET excludeRated == OptionOr(q.options, "excludeRated", TRUE)
        excludeWatchlist == OptionOr(q.options, "excludeWatchlist", TRUE)
        q1 == [q EXCEPT !.userProfile = userProfile,
                        !.weights = calculateWeights(userProfile),
                        !.ratings = <<>>, !.recentActions = <<>>, !.timeActive = 0,
                        !.did = @ \cup {"catalog"}]
    IN  IF ~excludeRated /\ ~excludeWatchlist
        THEN AfterMovies(q1, allMovies, clock)
        ELSE [q1 EXCEPT !.pc = IF excludeRated THEN "readRated" ELSE "readWatchlist"]

\* lines 49-63: fusion, diversity, cutoff and ranking, up to the cache write
FuseAndRank(q, collaborativeScores) ==
    LET hybridScores ==
            combineScores(q.contentScores, collaborativeScores, q.sequenceScores,
                          q.ruleScores, q.weights,
                          OptionOr(q.options, "includeExplanations", FALSE))
        diversifiedScores ==
            applyDiversityFilter(hybridScores, OptionOr(q.options, "diversityFactor", Rat(1, 4)))
    IN  [q EXCEPT !.pc = "setex",
                  !.collaborativeScores = collaborativeScores,
                  !.hybridScores = hybridScores,
                  !.result = CutoffAndRank(diversifiedScores,
                                 OptionOr(q.options, "minScore", Rat(1, 2)),
                                 OptionOr(q.options, "count", 25))]

\* a call that goes on to build the profile although the cache answered
CacheHitIgnored(q, cached) == [q EXCEPT !.pc = "readRatings"]

\* lines 29-32: if (cached) return JSON.parse(cached)
CacheHit(q, cached) == Returned(q, JSONparse(cached), "cache")

\* the call, up to the answer of redis.get
generateRecommendations(r) ==
    /\ req[r].pc = "idle"
    /\ r \in DOMAIN calls
    /\ \A k \in 1..(r - 1) :
          IF calls[r][3] THEN req[k].pc \in {"done", "rejected"} ELSE req[k].pc # "idle"
    /\ LET u == calls[r][1]
           o == calls[r][2]
           q == [req[r] EXCEPT !.userId = u, !.options = o,
                               !.issuedAfter = {k \in Requests : req[k].pc \in {"done", "rejected"}},
                               !.issuedAt = now]
           key == cacheKey(u, o)
       IN  \E getRaises \in BOOLEAN :
             req' = [req EXCEPT ![r] =
                       IF getRaises THEN Rejected(q, "cacheRead")
                       ELSE IF key \in DOMAIN cache
                       THEN CacheHit(q, cache[key])
                       ELSE [q EXCEPT !.pc = "readRatings"]]
    /\ UNCHANGED <<unit, catalog, log, now, cache, faulty, model, calls>>

\* getUserProfile: getUserActions(userId, 1000, 'rate') answers
readRatings(r) ==
    /\ req[r].pc = "readRatings"
    /\ LET q == [req[r] EXCEPT !.did = @ \cup {"tracking"}]
       IN  \E readRaises \in BOOLEAN :
             req' = [req EXCEPT ![r] =
                       IF readRaises
                       THEN AfterProfile([q EXCEPT !.did = @ \cup {"readFailed"}],
                                         degenerateProfile(q.userId), catalog, now)
                       ELSE [q EXCEPT !.pc = "readRecent",
                                      !.ratings = getUserActions(log, q.userId, ActionLimit, "rate")]]
    /\ UNCHANGED <<unit, catalog, log, now, cache, faulty, model, calls>>

\* getUserProfile: getRecentActions(userId) answers
readRecentActions(r) ==
    /\ req[r].pc = "readRecent"
    /\ LET q == req[r]
       IN  \E readRaises \in BOOLEAN :
             req' = [req EXCEPT ![r] =
                       IF readRaises
                       THEN AfterProfile([q EXCEPT !.did = @ \cup {"readFailed"}],
                                         degenerateProfile(q.userId), catalog, now)
                       ELSE [q EXCEPT !.pc = "readAll",
                                      !.recentActions = getRecentActions(log, q.userId),
                                      !.timeActive = timeActiveOf(q.ratings, now)]]
    /\ UNCHANGED <<unit, catalog, log, now, cache, faulty, model, calls>>

\* getUserProfile: getUserActions(userId, 1000) answers
readAllActions(r) ==
    /\ req[r].pc = "readAll"
    /\ LET q == req[r]
       IN  \E readRaises \in BOOLEAN :
             req' = [req EXCEPT ![r] =
                       AfterProfile(IF readRaises THEN [q EXCEPT !.did = @ \cup {"readFailed"}] ELSE q,
                           IF readRaises THEN degenerateProfile(q.userId)
                           ELSE getUserProfile(q.userId, q.ratings, q.recentActions, q.timeActive,
                                    getUserActions(log, q.userId, ActionLimit, ""), now),
                           catalog, now)]
    /\ UNCHANGED <<unit, catalog, log, now, cache, faulty, model, calls>>

MovieIdsOf(actions) == {actions[i].movieId : i \in DOMAIN actions}

\* getAvailableMovies: getUserActions(userId, 1000, 'rate') answers
readRatedMovies(r) ==
    /\ req[r].pc = "readRated"
    /\ LET q == req[r]
           excluded == MovieIdsOf(getUserActions(log, q.userId, ActionLimit, "rate"))
       IN  \E readRaises \in BOOLEAN :
             req' = [req EXCEPT ![r] =
                       IF readRaises THEN AfterMovies([q EXCEPT !.did = @ \cup {"readFailed"}], <<>>, now)
                       ELSE IF OptionOr(q.options, "excludeWatchlist", TRUE)
                       THEN [q EXCEPT !.pc = "readWatchlist", !.excluded = excluded]
                       ELSE AfterMovies(q, FilterExcluded(catalog, excluded), now)]
    /\ UNCHANGED <<unit, catalog, log, now, cache, faulty, model, calls>>

\* getAvailableMovies: getUserActions(userId, 1000, 'add_watchlist') answers
readWatchlist(r) ==
    /\ req[r].pc = "readWatchlist"
    /\ LET q == req[r]
           excluded == q.excluded
                       \cup MovieIdsOf(getUserActions(log, q.userId, ActionLimit, "add_watchlist"))
       IN  \E readRaises \in BOOLEAN :
             req' = [req EXCEPT ![r] =
                       IF readRaises THEN AfterMovies([q EXCEPT !.did = @ \cup {"readFailed"}], <<>>, now)
                       ELSE AfterMovies([q EXCEPT !.excluded = {}],
                                        FilterExcluded(catalog, excluded), now)]
    /\ UNCHANGED <<unit, catalog, log, now, cache, faulty, model, calls>>

\* collaborativeFiltering: MatrixFactorization.predict answers
predictReturns(r) ==
    /\ req[r].pc = "predict"
    /\ LET q == [req[r] EXCEPT !.did = @ \cup {"predict"}]
           movieIds == [i \in DOMAIN q.availableMovies |-> q.availableMovies[i].id]
       IN  req' = [req EXCEPT ![r] =
                     IF model = "raise" \/ Len(predict(model, movieIds)) = 0
                     THEN [q EXCEPT !.pc = "readSimilar"]
                     ELSE FuseAndRank(q, MatrixRecords(predict(model, movieIds),
                                                       q.availableMovies))]
    /\ UNCHANGED <<unit, catalog, log, now, cache, faulty, model, calls>>

\* userBasedCollaborativeFiltering: the read of findSimilarUsers answers
readSimilarUsers(r) ==
    /\ req[r].pc = "readSimilar"
    /\ LET q == req[r]
           userRatings == getUserActions(log, q.userId, ActionLimit, "rate")
       IN  \E readRaises \in BOOLEAN :
             req' = [req EXCEPT ![r] =
                       FuseAndRank(IF readRaises THEN [q EXCEPT !.did = @ \cup {"readFailed"}] ELSE q,
                           userBasedCollaborativeFiltering(q.availableMovies,
                               IF readRaises THEN <<>> ELSE findSimilarUsers(userRatings),
                               log, "collaborative" \in faulty))]
    /\ UNCHANGED <<unit, catalog, log, now, cache, faulty, model, calls>>

\* a write that stores the entry and then raises
setexStoringBeforeRaising(r) ==
    /\ req[r].pc = "setex"
    /\ LET q == req[r]
       IN  /\ \E setexRaises \in BOOLEAN :
                req' = [req EXCEPT ![r] =
                          IF setexRaises THEN Rejected(q, "cacheWrite")
                          ELSE Returned([q EXCEPT !.did = @ \cup {"cacheWrite"}],
                                        q.result, "computed")]
           /\ cache' = (cacheKey(q.userId, q.options) :> JSONstringify(q.result)) @@ cache
    /\ UNCHANGED <<unit, catalog, log, now, faulty, model, calls>>

\* a write that appends to the entry the key already has
setexAppending(r) ==
    /\ req[r].pc = "setex"
    /\ LET q == req[r]
           key == cacheKey(q.userId, q.options)
       IN  \E setexRaises \in BOOLEAN :
             IF setexRaises
             THEN /\ req' = [req EXCEPT ![r] = Rejected(q, "cacheWrite")]
                  /\ cache' = cache
             ELSE /\ req' = [req EXCEPT ![r] =
                               Returned([q EXCEPT !.did = @ \cup {"cacheWrite"}],
                                        q.result, "computed")]
                  /\ cache' = (key :> ((IF key \in DOMAIN cache THEN cache[key] ELSE <<>>)
                                        \o JSONstringify(q.result)))
                              @@ cache
    /\ UNCHANGED <<unit, catalog, log, now, faulty, model, calls>>

\* redis.setex(cacheKey, 300, JSON.stringify(recommendations)) answers
setex(r) ==
    /\ req[r].pc = "setex"
    /\ LET q == req[r]
       IN  \E setexRaises \in BOOLEAN :
             IF setexRaises
             THEN /\ req' = [req EXCEPT ![r] = Rejected(q, "cacheWrite")]
                  /\ cache' = cache
             ELSE /\ req' = [req EXCEPT ![r] =
                               Returned([q EXCEPT !.did = @ \cup {"cacheWrite"}],
                                        q.result, "computed")]
                  /\ cache' = (cacheKey(q.userId, q.options) :> JSONstringify(q.result))
                              @@ cache
    /\ UNCHANGED <<unit, catalog, log, now, faulty, model, calls>>

(***************************************************************************)
(* The environment.                                                         *)
(***************************************************************************)
\* a client records an action of user u on a movie
trackAction(u, movieId, input) ==
    /\ Len(Tracked(log)) < MaxActions
    /\ \E r \in DOMAIN calls : calls[r][1] = u
    /\ log' = Append(log, Action(u, movieId, input[1], input[2], now))
    /\ UNCHANGED <<unit, catalog, now, cache, faulty, model, calls, req>>

\* a day passes; the 300 s of every cache entry elapse (the only expiry)
Tick ==
    /\ now < MaxTicks * MinutesPerDay
    /\ now' = now + RECENCY_HALF_LIFE_HOURS * MinutesPerHour
    /\ cache' = <<>>
    /\ UNCHANGED <<unit, catalog, log, faulty, model, calls, req>>

Next ==
    \/ \E r \in Requests : generateRecommendations(r)
    \/ \E r \in Requests : readRatings(r)
    \/ \E r \in Requests : readRecentActions(r)
    \/ \E r \in Requests : readAllActions(r)
    \/ \E r \in Requests : readRatedMovies(r)
    \/ \E r \in Requests : readWatchlist(r)
    \/ \E r \in Requests : predictReturns(r)
    \/ \E r \in Requests : readSimilarUsers(r)
    \/ \E r \in Requests : setex(r)
    \/ \E u \in Users, movieId \in MovieIds, input \in TrackInputs : trackAction(u, movieId, input)
    \/ Tick

Spec == Init /\ [][Next]_vars

(***************************************************************************)
(* One call on a populated catalog, for every set of scorers that throws    *)
(* and every outcome of predict.                                            *)
(***************************************************************************)
InitFaults ==
    /\ catalog = Catalog
    /\ log \in SeedLogs
    /\ now = 0
    /\ cache = <<>>
    /\ faulty \in SUBSET Scorers
    /\ model \in PredictOutcomes
    /\ calls = <<Call("u1", TopTwo, TRUE)>>
    /\ req = [r \in Requests |-> IdleRequest]
    /\ unit = NoUnit

SpecFaults == InitFaults /\ [][Next]_vars

(***************************************************************************)
(* Two calls with the same arguments on a populated catalog, the second     *)
(* issued while the first is still running.                                 *)
(***************************************************************************)
InitConcurrent ==
    /\ catalog = Catalog
    /\ log \in SeedLogs \ {<<>>}
    /\ now = 0
    /\ cache = <<>>
    /\ faulty = {}
    /\ model = "raise"
    /\ calls = <<Call("u1", TopTwo, TRUE), Call("u1", TopTwo, FALSE)>>
    /\ req = [r \in Requests |-> IdleRequest]
    /\ unit = NoUnit

SpecConcurrent == InitConcurrent /\ [][Next]_vars

(***************************************************************************)
(* Functions of the engine called on their own, on arguments drawn from     *)
(* bounded sets.                                                            *)
(***************************************************************************)
Called(fn, args) == [fn |-> fn, args |-> args]

HasReturned == "value" \in DOMAIN unit

\* the call of unit returns value
Returns(fn, value) ==
    /\ unit.fn = fn
    /\ ~HasReturned
    /\ unit' = [fn |-> fn, args |-> unit.args, value |-> value]
    /\ UNCHANGED <<catalog, log, now, cache, faulty, model, calls, req>>

\* the scores a scorer gives in the lists below
UnitScores == {Rat(1, 2), One}

\* the orders in which a scorer may emit up to MaxListLen catalog movies
Arrangements ==
    {s \in UNION {[1..n -> DOMAIN Catalog] : n \in 0..MaxListLen} :
        \A i, j \in DOMAIN s : i # j => s[i] # s[j]}

\* the lists a scorer may emit
ScoreLists(source) ==
    {[i \in DOMAIN s |-> ScoreRecord(Catalog[s[i]].id, Some(Catalog[s[i]]), sc[s[i]], source)] :
        s \in Arrangements, sc \in [DOMAIN Catalog -> UnitScores]}

\* the weights of a user with no rating
ColdWeights == calculateWeights(degenerateProfile("u1"))

\* lines 49-63 of generateRecommendations: fusion, diversity, cutoff and ranking
RankCalls ==
    {Called("rank", [contentScores |-> c, diversityFactor |-> d]) :
        c \in ScoreLists("content-based"), d \in {Zero, Rat(1, 4)}}

rank ==
    Returns("rank",
        CutoffAndRank(
            applyDiversityFilter(
                combineScores(unit.args.contentScores, <<>>, <<>>, <<>>, ColdWeights, FALSE),
                unit.args.diversityFactor),
            Zero, 25))

\* profiles on both sides of the two ratingCount thresholds, and the
\* degenerate profile, which has neither sessionDepth nor recencyScore
UnitRatingCounts == {0, 4, 5, 24, 25, 26}
UnitFractions == {Zero, Rat(1, 2), One}
WeightCalls == {Called("calculateWeights", [userProfile |-> p]) : p \in {degenerateProfile("u1")} \cup {[userId |-> "u1", ratingCount |-> n, sessionDepth |-> d, recencyScore |-> c] : n \in UnitRatingCounts, d \in UnitFractions, c \in UnitFractions}}
calculateWeightsReturns == Returns("calculateWeights", calculateWeights(unit.args.userProfile))

\* the lists one scorer may hand to the fusion: nothing, one movie, or two
\* movies; first is the score of movie 1, as in the combineScores test
FusionLists(source, first) == {<<>>, <<ScoreRecord(1, Some(Catalog[1]), first, source)>>, <<ScoreRecord(2, Some(Catalog[2]), Rat(1, 4), source), ScoreRecord(1, Some(Catalog[1]), first, source)>>, <<ScoreRecord(ForeignMovieId, None, first, source), ScoreRecord(2, None, first, source), ScoreRecord(3, Some(Catalog[3]), first, source)>>}
TestWeights == [content |-> Rat(4, 10), collaborative |-> Rat(3, 10), sequence |-> Rat(2, 10), rule |-> Rat(1, 10)]
FusionCalls == {Called("combineScores", [contentScores |-> c, collaborativeScores |-> m, sequenceScores |-> s, ruleScores |-> u, weights |-> w]) : c \in FusionLists("content-based", Rat(8, 10)), m \in FusionLists("collaborative-matrix", Rat(6, 10)), s \in FusionLists("sequence-aware", Rat(7, 10)), u \in FusionLists("rule-based", Rat(5, 10)), w \in {TestWeights, ColdWeights}}
combineScoresReturns == Returns("combineScores", combineScores(unit.args.contentScores, unit.args.collaborativeScores, unit.args.sequenceScores, unit.args.ruleScores, unit.args.weights, FALSE))

\* the diversity filter of either build, on fused lists in every order, for a
\* negative, a zero and two positive factors
Builds == {"js", "ts"}
UnitFactors == {R(0 - 1), Zero, Rat(1, 4), One}
DiversityCalls == {Called("applyDiversityFilter", [recommendations |-> l, diversityFactor |-> d, build |-> b]) : l \in ScoreLists("hybrid"), d \in UnitFactors, b \in Builds}
applyDiversityFilterReturns == Returns("applyDiversityFilter", IF unit.args.build = "js" THEN applyDiversityFilter(unit.args.recommendations, unit.args.diversityFactor) ELSE applyDiversityFilter_ts(unit.args.recommendations, unit.args.diversityFactor))

\* The second definition of the class (lines 813-1576): two successive calls of
\* its generateRecommendations on an empty cache.  hybridScores is what its
\* combineScores returned (content scores only, explanations off).
cacheKey_second(userId, options) == <<"recommendations", userId, OptionOr(options, "count", 25)>>

\* calculateWeights of the second definition for a profile without ratings
ColdWeights_second == [content |-> Rat(5, 12), collaborative |-> Rat(5, 24), popularity |-> Rat(7, 24), cross |-> Rat(1, 12)]

HybridRecord_second(movieId, contentScore) == [movieId |-> movieId, movie |-> Some(Catalog[movieId]), contentScore |-> contentScore, collaborativeScore |-> Zero, popularityScore |-> Zero, crossScore |-> Zero, explanation |-> None, score |-> RMul(contentScore, ColdWeights_second.content), weights |-> ColdWeights_second, source |-> "hybrid"]

\* JSON.stringify and JSON.parse of a list of the second definition: the
\* properties in the order the spreads give them, the undefined explanation
\* left out
stringifyRecord_second(rec) == << <<"movieId", rec.movieId>>, <<"movie", TheValue(rec.movie)>>, <<"score", rec.score>>, <<"source", rec.source>>, <<"contentScore", rec.contentScore>>, <<"collaborativeScore", rec.collaborativeScore>>, <<"popularityScore", rec.popularityScore>>, <<"crossScore", rec.crossScore>> >> \o (IF IsSome(rec.explanation) THEN << <<"explanation", TheValue(rec.explanation)>> >> ELSE <<>>) \o << <<"weights", rec.weights>> >>
parseRecord_second(obj) == [movieId |-> TheValue(PropertyOf(obj, "movieId")), movie |-> PropertyOf(obj, "movie"), contentScore |-> TheValue(PropertyOf(obj, "contentScore")), collaborativeScore |-> TheValue(PropertyOf(obj, "collaborativeScore")), popularityScore |-> TheValue(PropertyOf(obj, "popularityScore")), crossScore |-> TheValue(PropertyOf(obj, "crossScore")), explanation |-> PropertyOf(obj, "explanation"), score |-> TheValue(PropertyOf(obj, "score")), weights |-> TheValue(PropertyOf(obj, "weights")), source |-> TheValue(PropertyOf(obj, "source"))]

\* lines 876-883: diversity filter, cutoff, ranking
Recommendations_second(hybridScores, options) == CutoffAndRank(applyDiversityFilter(hybridScores, OptionOr(options, "diversityFactor", Rat(1, 4))), OptionOr(options, "minScore", Rat(1, 2)), OptionOr(options, "count", 25))

Lenient == << <<"minScore", Zero>> >>
SecondOptions == {NoOptions, TopTwo, TopTwoPermuted, AllButLast, Lenient}
SecondLists == {<<>>, <<HybridRecord_second(1, One), HybridRecord_second(2, Rat(1, 2))>>, <<HybridRecord_second(3, One), HybridRecord_second(1, One)>>}
SecondCalls == {Called("generateRecommendations_second", [first |-> <<"u1", o1>>, second |-> <<u2, o2>>, hybridScores |-> l]) : o1 \in SecondOptions, u2 \in Users, o2 \in SecondOptions, l \in SecondLists}

\* the first call: the cache is empty, so the list is computed and, unless
\* there was no candidate, written under the key
firstCall_second ==
    /\ unit.fn = "generateRecommendations_second"
    /\ "cache" \notin DOMAIN unit
    /\ LET key == cacheKey_second(unit.args.first[1], unit.args.first[2])
           recommendations == Recommendations_second(unit.args.hybridScores, unit.args.first[2])
       IN  unit' = [fn |-> unit.fn, args |-> unit.args,
                    cache |-> IF unit.args.hybridScores = <<>> THEN <<>>
                              ELSE << <<key, [i \in DOMAIN recommendations |-> stringifyRecord_second(recommendations[i])]>> >>]
    /\ UNCHANGED <<catalog, log, now, cache, faulty, model, calls, req>>

\* the second call: answered from the cache when its key has an entry
secondCall_second ==
    /\ unit.fn = "generateRecommendations_second"
    /\ "cache" \in DOMAIN unit
    /\ ~HasReturned
    /\ LET key == cacheKey_second(unit.args.second[1], unit.args.second[2])
           cached == SelectSeq(unit.cache, LAMBDA e : e[1] = key)
       IN  unit' = [fn |-> unit.fn, args |-> unit.args, cache |-> unit.cache,
                    value |-> IF cached # <<>>
                              THEN [hit |-> TRUE, list |-> [i \in DOMAIN cached[1][2] |-> parseRecord_second(cached[1][2][i])]]
                              ELSE [hit |-> FALSE, list |-> Recommendations_second(unit.args.hybridScores, unit.args.second[2])]]
    /\ UNCHANGED <<catalog, log, now, cache, faulty, model, calls, req>>

\* action lists in any order, with gaps below, at and above the session
\* timeout; 0, 15, 60 are the timestamps of the groupActionsBySessions test
UnitTimestamps == {0, 15, 30, 60, 61, 92}
SessionCalls == {Called("groupActionsBySessions", [actions |-> [i \in DOMAIN ts |-> [timestamp |-> ts[i]]]]) : ts \in UNION {[1..n -> UnitTimestamps] : n \in 0..MaxListLen}}
groupActionsBySessionsReturns == Returns("groupActionsBySessions", groupActionsBySessions(unit.args.actions, DEFAULT_SESSION_TIMEOUT))

\* calculateWeights for two profiles that differ in ratingCount only
RatingCountPairs == {q \in UnitRatingCounts \X UnitRatingCounts : q[1] < q[2]}
WeightPairCalls == {Called("calculateWeights twice", [fewer |-> [userId |-> "u1", ratingCount |-> q[1], sessionDepth |-> d, recencyScore |-> c], more |-> [userId |-> "u1", ratingCount |-> q[2], sessionDepth |-> d, recencyScore |-> c]]) : q \in RatingCountPairs, d \in UnitFractions, c \in UnitFractions}
calculateWeightsTwice == Returns("calculateWeights twice", [fewer |-> calculateWeights(unit.args.fewer), more |-> calculateWeights(unit.args.more)])

\* normalizeScore of either build, on raw scores below, inside and above the
\* range 1..10 (the values of the normalizeScore tests among them)
UnitRawScores == {R(0 - 2), Zero, Rat(1, 2), One, R(2), Rat(11, 2), R(10), R(11)}
NormalizeCalls == {Called("normalizeScore", [score |-> x, build |-> b]) : x \in UnitRawScores, b \in Builds}
normalizeScoreReturns == Returns("normalizeScore", IF unit.args.build = "js" THEN normalizeScore(unit.args.score) ELSE normalizeScore_ts(unit.args.score))

\* rating lists of every length up to the bound; 5, 7, 3 are the values of the
\* calculateRatingVariance test
UnitRatings == {1, 3, 5, 7, 10}
VarianceCalls == {Called("calculateRatingVariance", [ratings |-> [i \in DOMAIN vs |-> [value |-> vs[i]]]]) : vs \in UNION {[1..n -> UnitRatings] : n \in 0..MaxListLen}}
calculateRatingVarianceReturns == Returns("calculateRatingVariance", calculateRatingVariance(unit.args.ratings))

\* the fusion of lines 42-56 when the four scorers settle in the order given
\* by a permutation and their lists are ingested in that order too, next to the
\* fusion as written
Orders == {p \in [1..4 -> 1..4] : \A i, j \in 1..4 : i # j => p[i] # p[j]}
OrderCalls == {Called("combineScores in order", [outputs |-> <<c.args.contentScores, c.args.collaborativeScores, c.args.sequenceScores, c.args.ruleScores>>, weights |-> c.args.weights, order |-> p]) : c \in {f \in FusionCalls : f.args.weights = TestWeights}, p \in Orders}
combineScoresInOrderReturns == Returns("combineScores in order", [asWritten |-> combineScores(unit.args.outputs[1], unit.args.outputs[2], unit.args.outputs[3], unit.args.outputs[4], unit.args.weights, FALSE), reordered |-> combineScoresInOrder(unit.args.order, PromiseAll(unit.args.outputs, unit.args.order), unit.args.weights, FALSE)])

\* normalizeWeights on weight vectors with negative, zero and positive entries
UnitRawWeights == {Rat(0 - 1, 2), Zero, Rat(1, 2), One}
RawWeightCalls == {Called("normalizeWeights", [weights |-> [content |-> a, collaborative |-> b, sequence |-> c, rule |-> d]]) : a \in UnitRawWeights, b \in UnitRawWeights, c \in UnitRawWeights, d \in UnitRawWeights}
normalizeWeightsReturns == Returns("normalizeWeights", normalizeWeights(unit.args.weights))

UnitCalls == RankCalls \cup WeightCalls \cup FusionCalls \cup DiversityCalls \cup SecondCalls \cup SessionCalls \cup WeightPairCalls \cup NormalizeCalls \cup VarianceCalls \cup OrderCalls \cup RawWeightCalls

InitUnits ==
    /\ catalog = EmptyCatalog
    /\ log = <<>>
    /\ now = 0
    /\ cache = <<>>
    /\ faulty = {}
    /\ model = "none"
    /\ calls = <<>>
    /\ req = [r \in Requests |-> IdleRequest]
    /\ unit \in UnitCalls

NextUnits ==
    \/ rank
    \/ calculateWeightsReturns
    \/ combineScoresReturns
    \/ applyDiversityFilterReturns
    \/ firstCall_second
    \/ secondCall_second
    \/ groupActionsBySessionsReturns
    \/ calculateWeightsTwice
    \/ normalizeScoreReturns
    \/ calculateRatingVarianceReturns
    \/ combineScoresInOrderReturns
    \/ normalizeWeightsReturns

SpecUnits == InitUnits /\ [][NextUnits]_vars

(***************************************************************************)
(* Properties.                                                              *)
(***************************************************************************)
KeyOf(r) == cacheKey(req[r].userId, req[r].options)

Settling(r) == req[r].pc \notin {"done", "rejected"} /\ req'[r].pc \in {"done", "rejected"}

\* call r2 was issued once call r1 had returned its list, with the same
\* (userId, options), no cache entry has expired since r1 was issued, and no
\* third call has written their cache key
BackToBack(r1, r2) ==
    /\ r1 # r2
    /\ req[r1].pc = "done"
    /\ req[r2].pc = "done"
    /\ r1 \in req[r2].issuedAfter
    /\ req[r1].userId = req[r2].userId
    /\ req[r1].options = req[r2].options
    /\ req[r1].issuedAt = now
    /\ \A k \in Requests \ {r1, r2} : ~(req[k].path = "computed" /\ KeyOf(k) = KeyOf(r1))

\* C1 (as amended): when the first of two back-to-back calls with identical
\* (userId, options) completed through the cache write and no cache entry has
\* expired, the second call returns the identical list and is answered from
\* the cache: it reads no tracking data, fetches no catalog and scores nothing.
C1_CacheConsistency ==
    \A r1, r2 \in Requests :
        BackToBack(r1, r2) /\ req[r1].path = "computed"
            => /\ req[r2].path = "cache"
               /\ req[r2].result = req[r1].result
               /\ req[r2].did = {}

C1_Witness ==
    \E r1, r2 \in Requests :
        /\ BackToBack(r1, r2)
        /\ req[r1].path = "computed"
        /\ req[r2].path = "cache"
        /\ Len(req[r2].result) > 0

\* C1 as stated: any two back-to-back calls with identical (userId, options)
\* and no expiry between them return identical lists, the second from the cache.
C1_AsStated ==
    \A r1, r2 \in Requests :
        BackToBack(r1, r2)
            => /\ req[r2].path = "cache"
               /\ req[r2].result = req[r1].result
               /\ req[r2].did = {}

\* C2: when redis.get answers with an entry for the call's cache key, the call
\* returns the decoded entry, having read no tracking data, fetched no catalog,
\* called no scorer and written no cache entry; the cache is left unchanged.
C2_CacheHitFrame ==
    [][\A r \in Requests :
          ( /\ req[r].pc = "idle"
            /\ req'[r].pc \notin {"idle", "rejected"}
            /\ cacheKey(calls[r][1], calls[r][2]) \in DOMAIN cache )
          => /\ req'[r].pc = "done"
             /\ req'[r].path = "cache"
             /\ req'[r].result = JSONparse(cache[cacheKey(calls[r][1], calls[r][2])])
             /\ req'[r].did = {}
             /\ cache' = cache]_vars

C2_Witness ==
    \E r \in Requests :
        /\ req[r].pc = "done"
        /\ req[r].path = "cache"
        /\ req[r].did = {}
        /\ Len(req[r].result) > 0
        /\ KeyOf(r) \in DOMAIN cache
        /\ req[r].result = JSONparse(cache[KeyOf(r)])

\* C3: a call whose candidate list is empty after exclusion filtering goes no
\* further (only calls with candidates reach the scorers and the cache write);
\* it returns the empty list and leaves the cache as it was.
C3_EmptyCandidates ==
    [][\A r \in Requests :
          /\ req'[r].pc \in {"predict", "readSimilar", "setex"}
                => Len(req'[r].availableMovies) > 0
          /\ (Settling(r) /\ req'[r].path = "empty")
                => /\ req'[r].pc = "done"
                   /\ req'[r].result = <<>>
                   /\ "cacheWrite" \notin req'[r].did
                   /\ "scorer" \notin req'[r].did
                   /\ cache' = cache]_vars

C3_Witness ==
    \E r \in Requests :
        /\ req[r].pc = "done"
        /\ req[r].path = "empty"
        /\ Len(catalog) > 0
        /\ \A i \in DOMAIN catalog :
              \E j \in DOMAIN log : log[j].userId = req[r].userId /\ log[j].movieId = catalog[i].id
        /\ KeyOf(r) \notin DOMAIN cache

\* C4: whichever of the four scorers throw during a call, no call is rejected
\* on their account: once the scorers have been called the call goes on to
\* the fusion and the cache write, and only a failing cache write rejects it.
C4_ScorerErrorsContained ==
    \A r \in Requests :
        "scorer" \in req[r].did
            => \/ req[r].pc \in {"predict", "readSimilar", "setex", "done"}
               \/ req[r].pc = "rejected" /\ req[r].path = "cacheWrite"

C4_Witness ==
    \E r \in Requests :
        /\ faulty = Scorers
        /\ model = "raise"
        /\ req[r].pc = "done"
        /\ req[r].path = "computed"
        /\ "scorer" \in req[r].did

\* the fused records of call r have 0 in the slots of the strategies in failed
ZeroSlots(r, failed) ==
    \A i \in DOMAIN req[r].hybridScores :
        LET rec == req[r].hybridScores[i]
        IN  /\ "content" \in failed => rec.contentScore = Zero
            /\ "collaborative" \in failed => rec.collaborativeScore = Zero
            /\ "sequence" \in failed => rec.sequenceScore = Zero
            /\ "rule" \in failed => rec.ruleScore = Zero

\* the collaborative strategy of this deployment ends in the catch block of
\* userBasedCollaborativeFiltering: predict gave nothing and the fallback throws
CollaborativeFails == "collaborative" \in faulty /\ model \in {"raise", "none"}

\* C5 (as amended): a content, sequence or rule scorer that fails contributes
\* an empty list, and so does the collaborative strategy when its fallback
\* userBasedCollaborativeFiltering fails too; every fused record then has 0 in
\* that strategy's slot.  When predict raises and the fallback succeeds, the
\* collaborative slot holds the fallback's score, the popularity score.
C5_FailedScorerSlots ==
    \A r \in Requests :
        req[r].pc = "setex"
            => /\ "content" \in faulty => req[r].contentScores = <<>>
               /\ "sequence" \in faulty => req[r].sequenceScores = <<>>
               /\ "rule" \in faulty => req[r].ruleScores = <<>>
               /\ CollaborativeFails => req[r].collaborativeScores = <<>>
               /\ ZeroSlots(r, (faulty \ {"collaborative"})
                                \cup (IF CollaborativeFails THEN {"collaborative"} ELSE {}))
               /\ (model = "raise" /\ "collaborative" \notin faulty)
                     => \A i \in DOMAIN req[r].hybridScores :
                           req[r].hybridScores[i].collaborativeScore =
                               calculatePopularityScore(TheValue(req[r].hybridScores[i].movie))

C5_Witness ==
    \E r \in Requests :
        /\ req[r].pc = "setex"
        /\ faulty = {"content", "collaborative"}
        /\ model = "raise"
        /\ Len(req[r].hybridScores) > 1
        /\ \E i \in DOMAIN req[r].hybridScores :
              RLt(Zero, req[r].hybridScores[i].ruleScore)

\* C5 as stated: every failing scorer leaves 0 in its slot, the collaborative
\* one whenever predict raises.
C5_AsStated ==
    \A r \in Requests :
        req[r].pc = "setex"
            => ZeroSlots(r, (faulty \ {"collaborative"})
                             \cup (IF model = "raise" THEN {"collaborative"} ELSE {}))

\* C6 as stated, for getUserProfile of recommendationEngine.ts: whichever of
\* its TrackingService reads raise, it does not reject and returns the
\* degenerate profile.
C6_AsStated ==
    \A u \in Users, failing \in (SUBSET ProfileReads) \ {{}} :
        LET outcome == getUserProfile_ts(u, log, failing, now)
        IN  /\ ~outcome.rejects
            /\ outcome.profile = degenerateProfile(u)

\* C7 as stated: no call is rejected because the cache read, the catalog fetch
\* or the profile build failed; only a failing cache write rejects a call.
C7_AsStated ==
    \A r \in Requests : req[r].pc = "rejected" => req[r].path = "cacheWrite"

\* the movies user u has an action of the given type on
ActedOn(u, actionType) ==
    {log[i].movieId : i \in {j \in DOMAIN log : log[j].userId = u /\ log[j].actionType = actionType}}

\* C8 as stated: at the moment a call returns its list, computed or served
\* from the cache, the list holds no movie the user has rated (excludeRated)
\* and none the user has put on the watchlist (excludeWatchlist).
C8_AsStated ==
    [][\A r \in Requests :
          (Settling(r) /\ req'[r].pc = "done")
          => \A i \in DOMAIN req'[r].result :
                /\ OptionOr(req'[r].options, "excludeRated", TRUE)
                      => req'[r].result[i].movieId \notin ActedOn(req'[r].userId, "rate")
                /\ OptionOr(req'[r].options, "excludeWatchlist", TRUE)
                      => req'[r].result[i].movieId
                            \notin ActedOn(req'[r].userId, "add_watchlist")]_vars

\* C9: every record of the list a cache-miss call computes and returns has a
\* final (post-diversity) score of at least the request's minScore.
C9_MinScore ==
    \A r \in Requests :
        (req[r].pc = "setex" \/ (req[r].pc = "done" /\ req[r].path = "computed"))
            => \A i \in DOMAIN req[r].result :
                  RLe(OptionOr(req[r].options, "minScore", Rat(1, 2)), req[r].result[i].score)

C9_Witness ==
    \E r \in Requests :
        /\ req[r].pc = "setex"
        /\ OptionOr(req[r].options, "count", 25) > Len(req[r].hybridScores)
        /\ Len(req[r].result) > 0
        /\ Len(req[r].result) < Len(req[r].hybridScores)

\* C10 as stated: whatever the count option, the returned list is sorted by
\* score in non-increasing order and has at most count records (none at all,
\* the least a list can have, when count is negative).
C10_AsStated ==
    \A r \in Requests :
        req[r].pc = "done"
            => LET count == OptionOr(req[r].options, "count", 25)
               IN  /\ \A i, j \in DOMAIN req[r].result :
                         i < j => RLe(req[r].result[j].score, req[r].result[i].score)
                   /\ Len(req[r].result) <= IF count > 0 THEN count ELSE 0

\* C11 as stated: in the ranked list, records come in non-increasing score
\* order and records of equal final score in ascending movieId order, in
\* whatever order the scorer emitted them.
C11_AsStated ==
    (unit.fn = "rank" /\ HasReturned)
        => \A i, j \in DOMAIN unit.value :
              i < j => \/ RLt(unit.value[j].score, unit.value[i].score)
                       \/ /\ unit.value[j].score = unit.value[i].score
                          /\ unit.value[i].movieId < unit.value[j].movieId

InUnitInterval(x) == RLe(Zero, x) /\ RLe(x, One)

\* C12 as stated: every score a scorer emits (popularity-fallback scores
\* included) lies in [0,1], and so does every hybrid score and every sub-score
\* a fused record carries.
C12_AsStated ==
    \A r \in Requests :
        req[r].pc = "setex"
            => /\ \A i \in DOMAIN req[r].contentScores : InUnitInterval(req[r].contentScores[i].score)
               /\ \A i \in DOMAIN req[r].collaborativeScores :
                     InUnitInterval(req[r].collaborativeScores[i].score)
               /\ \A i \in DOMAIN req[r].sequenceScores : InUnitInterval(req[r].sequenceScores[i].score)
               /\ \A i \in DOMAIN req[r].ruleScores : InUnitInterval(req[r].ruleScores[i].score)
               /\ \A i \in DOMAIN req[r].hybridScores : InUnitInterval(req[r].hybridScores[i].score)

WeightsOf(w) == <<w.content, w.collaborative, w.sequence, w.rule>>

\* C13: the weights calculateWeights returns are all non-negative and sum to 1,
\* for every profile (any ratingCount, sessionDepth and recencyScore in [0,1],
\* or absent).
C13_Weights ==
    (unit.fn = "calculateWeights" /\ HasReturned)
        => /\ \A i \in 1..4 : RLe(Zero, WeightsOf(unit.value)[i])
           /\ RSum(WeightsOf(unit.value)) = One

\* weights were returned for a profile in the top tier whose raw weights sum to
\* more than 1 (recencyScore 1), so that the division matters
C13_Witness ==
    /\ unit.fn = "calculateWeights"
    /\ HasReturned
    /\ unit.args.userProfile.ratingCount >= 25
    /\ FieldOr(unit.args.userProfile, "recencyScore", Zero) = One
    /\ unit.value.collaborative = Rat(9, 22)

\* C14: every record combineScores produces has source 'hybrid' and a score
\* equal to the sum of its own four sub-scores, each multiplied by the supplied
\* weight of its strategy.
C14_FusionFormula ==
    (unit.fn = "combineScores" /\ HasReturned)
        => \A i \in DOMAIN unit.value :
              /\ unit.value[i].source = "hybrid"
              /\ unit.value[i].score
                    = RAdd(RAdd(RMul(unit.value[i].contentScore, unit.args.weights.content),
                                RMul(unit.value[i].collaborativeScore, unit.args.weights.collaborative)),
                           RAdd(RMul(unit.value[i].sequenceScore, unit.args.weights.sequence),
                                RMul(unit.value[i].ruleScore, unit.args.weights.rule)))

\* the case of the combineScores test: sub-scores 0.8, 0.6, 0.7, 0.5 under the
\* weights 0.4, 0.3, 0.2, 0.1 fuse to 0.69
C14_Witness ==
    /\ unit.fn = "combineScores"
    /\ HasReturned
    /\ unit.args.weights = TestWeights
    /\ \E i \in DOMAIN unit.value :
          /\ unit.value[i].contentScore = Rat(8, 10)
          /\ unit.value[i].collaborativeScore = Rat(6, 10)
          /\ unit.value[i].sequenceScore = Rat(7, 10)
          /\ unit.value[i].ruleScore = Rat(5, 10)
          /\ unit.value[i].score = Rat(69, 100)

\* the score the record of movieId had in the list
ScoreIn(list, movieId) == list[CHOOSE i \in DOMAIN list : list[i].movieId = movieId].score

\* C15 as stated: for every input list and every diversityFactor, no record
\* leaves applyDiversityFilter (of either build) with a higher score than it
\* entered with.
C15_AsStated ==
    (unit.fn = "applyDiversityFilter" /\ HasReturned)
        => \A i \in DOMAIN unit.value :
              RLe(unit.value[i].score, ScoreIn(unit.args.recommendations, unit.value[i].movieId))

MovieIdsIn(list) == {list[i].movieId : i \in DOMAIN list}

\* C16: applyDiversityFilter neither drops nor adds records: its output holds
\* exactly the movieIds of its input, each once, whatever the diversityFactor.
C16_NoRecordDropped ==
    (unit.fn = "applyDiversityFilter" /\ unit.args.build = "js" /\ HasReturned)
        => /\ MovieIdsIn(unit.value) = MovieIdsIn(unit.args.recommendations)
           /\ Len(unit.value) = Len(unit.args.recommendations)
           /\ \A i, j \in DOMAIN unit.value :
                 i # j => unit.value[i].movieId # unit.value[j].movieId

\* the filter ran on three movies, penalised one of them for overlapping in
\* genre and director, and returned all three
C16_Witness ==
    /\ unit.fn = "applyDiversityFilter"
    /\ unit.args.build = "js"
    /\ HasReturned
    /\ unit.args.diversityFactor = One
    /\ Len(unit.args.recommendations) = 3
    /\ Len(unit.value) = 3
    /\ \E i \in DOMAIN unit.value :
          unit.value[i].score = RMul(Rat(1, 2), ScoreIn(unit.args.recommendations, unit.value[i].movieId))

\* every record of the list carries the source tag
AllTagged(list, source) == \A i \in DOMAIN list : list[i].source = source

\* C17 as stated: when the profile has ratingCount 0 and no recent actions,
\* every record the content, collaborative, sequence and rule scorers emit is a
\* popularity fallback, tagged content-cold, collaborative-cold, sequence-cold
\* and rule-cold.
C17_AsStated ==
    \A r \in Requests :
        (/\ req[r].pc = "setex"
         /\ req[r].userProfile.ratingCount = 0
         /\ req[r].userProfile.recentActions = <<>>)
            => /\ AllTagged(req[r].contentScores, "content-cold")
               /\ AllTagged(req[r].collaborativeScores, "collaborative-cold")
               /\ AllTagged(req[r].sequenceScores, "sequence-cold")
               /\ AllTagged(req[r].ruleScores, "rule-cold")

\* the two options objects have the same fields with the same values
SameOptions(o1, o2) == RangeOf(o1) = RangeOf(o2)

\* C18 as stated: two calls for the same userId whose options objects have the
\* same fields and values, in whatever order they were built, derive the same
\* cache key, so that the second, issued after the first wrote its list and
\* before any expiry, is answered from the cache.
C18_AsStated ==
    \A r1, r2 \in Requests :
        (/\ r1 # r2
         /\ req[r1].pc = "done"
         /\ req[r2].pc = "done"
         /\ r1 \in req[r2].issuedAfter
         /\ req[r1].path = "computed"
         /\ req[r1].issuedAt = now
         /\ req[r1].userId = req[r2].userId
         /\ SameOptions(req[r1].options, req[r2].options))
            => /\ KeyOf(r1) = KeyOf(r2)
               /\ req[r2].path = "cache"

\* C19 as stated, for the second definition of generateRecommendations: a call
\* is answered from the cache only with a list written by a call with the same
\* userId and the same options.
C19_AsStated ==
    (unit.fn = "generateRecommendations_second" /\ HasReturned /\ unit.value.hit)
        => /\ unit.args.first[1] = unit.args.second[1]
           /\ SameOptions(unit.args.first[2], unit.args.second[2])

\* C20: in the sessions groupActionsBySessions returns (default timeout), two
\* adjacent actions of one session are at most 30 minutes apart, and the last
\* action of a session is more than 30 minutes before the first action of the
\* next session.
C20_Sessions ==
    (unit.fn = "groupActionsBySessions" /\ HasReturned)
        => /\ \A s \in DOMAIN unit.value : \A i \in 1..(Len(unit.value[s]) - 1) :
                 Abs(unit.value[s][i + 1].timestamp - unit.value[s][i].timestamp) <= 30
           /\ \A s \in 1..(Len(unit.value) - 1) :
                 unit.value[s + 1][1].timestamp
                    - unit.value[s][Len(unit.value[s])].timestamp > 30

\* the case of the groupActionsBySessions test, handed over unsorted: actions
\* at 10:00, 10:15 and 11:00 fall into a session of two and a session of one
C20_Witness ==
    /\ unit.fn = "groupActionsBySessions"
    /\ HasReturned
    /\ unit.args.actions = <<[timestamp |-> 60], [timestamp |-> 0], [timestamp |-> 15]>>
    /\ unit.value = << <<[timestamp |-> 0], [timestamp |-> 15]>>, <<[timestamp |-> 60]>> >>

\* the weight table: base weights <<content, collaborative, sequence, rule>> of
\* the tier of ratingCount n, for session depth d and recency c
TierVector(n, d, c) ==
    IF n < 5 THEN <<Rat(40, 100), Rat(10, 100), RAdd(Rat(20, 100), RMul(Rat(10, 100), c)), Rat(30, 100)>>
    ELSE IF n < 25 THEN <<Rat(35, 100), Rat(25, 100), RAdd(Rat(25, 100), RMul(Rat(5, 100), d)), Rat(15, 100)>>
    ELSE <<Rat(25, 100), Rat(45, 100), RAdd(Rat(20, 100), RMul(Rat(10, 100), c)), Rat(10, 100)>>

\* C21: calculateWeights returns the normalised vector of the tier of the
\* profile's ratingCount (below 5, from 5 to 24, from 25 on; 4 is in the first
\* tier and 5 in the second), so that a profile with fewer than 5 ratings gets
\* content > collaborative and rule > collaborative, and one with 25 or more
\* gets collaborative > content.
C21_Tiers ==
    (unit.fn = "calculateWeights" /\ HasReturned)
        => LET p == unit.args.userProfile
               tier == TierVector(p.ratingCount, FieldOr(p, "sessionDepth", Zero), FieldOr(p, "recencyScore", Zero))
               w == unit.value
           IN  /\ \A i \in 1..4 : WeightsOf(w)[i] = RDiv(tier[i], RSum(tier))
               /\ p.ratingCount < 5 => RLt(w.collaborative, w.content) /\ RLt(w.collaborative, w.rule)
               /\ p.ratingCount >= 25 => RLt(w.content, w.collaborative)

\* the boundary: a profile with exactly 5 ratings got the second tier's vector
C21_Witness ==
    /\ unit.fn = "calculateWeights"
    /\ HasReturned
    /\ unit.args.userProfile.ratingCount = 5
    /\ FieldOr(unit.args.userProfile, "sessionDepth", One) = Zero
    /\ unit.value = [content |-> Rat(35, 100), collaborative |-> Rat(25, 100), sequence |-> Rat(25, 100), rule |-> Rat(15, 100)]

\* C22: of two profiles with the same sessionDepth and recencyScore, the one
\* with more ratings gets a collaborative weight at least as large and a rule
\* weight at most as large.
C22_Monotone ==
    (unit.fn = "calculateWeights twice" /\ HasReturned)
        => /\ RLe(unit.value.fewer.collaborative, unit.value.more.collaborative)
           /\ RLe(unit.value.more.rule, unit.value.fewer.rule)

\* the two profiles lie in the first and in the last tier, with full recency:
\* the collaborative weight rose from 1/11 to 9/22 and the rule weight fell
\* from 3/11 to 1/11
C22_Witness ==
    /\ unit.fn = "calculateWeights twice"
    /\ HasReturned
    /\ unit.args.fewer.ratingCount = 4
    /\ unit.args.more.ratingCount = 25
    /\ unit.value.fewer.collaborative = Rat(1, 11)
    /\ unit.value.more.collaborative = Rat(9, 22)
    /\ unit.value.fewer.rule = Rat(3, 11)
    /\ unit.value.more.rule = Rat(1, 11)

\* C23 as stated: normalizeScore (of either build) maps x < 1 to 0, x > 10 to 1
\* and x in [1,10] to (x-1)/9.
C23_AsStated ==
    (unit.fn = "normalizeScore" /\ HasReturned)
        => unit.value = (IF RLt(unit.args.score, R(1)) THEN Zero
                         ELSE IF RLt(R(10), unit.args.score) THEN One
                         ELSE RDiv(RSub(unit.args.score, R(1)), R(9)))

RECURSIVE SumOfValues(_)
SumOfValues(ratings) == IF ratings = <<>> THEN 0 ELSE Head(ratings).value + SumOfValues(Tail(ratings))

RECURSIVE SumOfSquares(_)
SumOfSquares(ratings) == IF ratings = <<>> THEN 0 ELSE Head(ratings).value * Head(ratings).value + SumOfSquares(Tail(ratings))

\* C24: calculateRatingVariance returns 0 for fewer than two ratings and
\* otherwise the population variance of the values, here in the form
\* (n * sum of squares - square of the sum) / n^2.
C24_Variance ==
    (unit.fn = "calculateRatingVariance" /\ HasReturned)
        => LET ratings == unit.args.ratings
               n == Len(ratings)
           IN  unit.value = IF n < 2 THEN Zero
                            ELSE Rat(n * SumOfSquares(ratings) - SumOfValues(ratings) * SumOfValues(ratings), n * n)

\* the case of the calculateRatingVariance test: 5, 7, 3 have variance 8/3
C24_Witness ==
    /\ unit.fn = "calculateRatingVariance"
    /\ HasReturned
    /\ unit.args.ratings = <<[value |-> 5], [value |-> 7], [value |-> 3]>>
    /\ unit.value = Rat(8, 3)

\* the movieIds the list scores with a resolved movie
ResolvedIn(list) == {list[i].movieId : i \in {j \in DOMAIN list : IsSome(list[j].movie)}}

\* C25: combineScores returns exactly one record for each movieId that some
\* scorer output carries with a resolved movie (entries without one are
\* skipped), and in each record the slot of a strategy that did not score the
\* movie is present and 0.
C25_OneRecordPerItem ==
    (unit.fn = "combineScores" /\ HasReturned)
        => LET lists == [contentScore |-> unit.args.contentScores,
                         collaborativeScore |-> unit.args.collaborativeScores,
                         sequenceScore |-> unit.args.sequenceScores,
                         ruleScore |-> unit.args.ruleScores]
           IN  /\ MovieIdsIn(unit.value) = UNION {ResolvedIn(lists[k]) : k \in DOMAIN lists}
               /\ \A i, j \in DOMAIN unit.value : i # j => unit.value[i].movieId # unit.value[j].movieId
               /\ \A i \in DOMAIN unit.value : \A k \in DOMAIN lists :
                     /\ k \in DOMAIN unit.value[i]
                     /\ unit.value[i].movieId \notin ResolvedIn(lists[k]) => unit.value[i][k] = Zero

\* movie 2 was scored by the content scorer, and by the collaborative scorer
\* only in an entry without a resolved movie, next to an entry for an id that
\* is no candidate: one record for movie 2, its collaborative slot 0, and no
\* record for the foreign id
C25_Witness ==
    /\ unit.fn = "combineScores"
    /\ HasReturned
    /\ 2 \in ResolvedIn(unit.args.contentScores)
    /\ \E i \in DOMAIN unit.args.collaborativeScores :
          unit.args.collaborativeScores[i].movieId = 2 /\ ~IsSome(unit.args.collaborativeScores[i].movie)
    /\ \E i \in DOMAIN unit.args.collaborativeScores :
          unit.args.collaborativeScores[i].movieId = ForeignMovieId
    /\ \E i \in DOMAIN unit.value :
          /\ unit.value[i].movieId = 2
          /\ unit.value[i].contentScore = Rat(1, 4)
          /\ unit.value[i].collaborativeScore = Zero
    /\ ForeignMovieId \notin MovieIdsIn(unit.value)

\* the fused records of the list as a set: movieId, the four sub-scores, the
\* hybrid score
FusedSet(list) == {[movieId |-> list[i].movieId, contentScore |-> list[i].contentScore, collaborativeScore |-> list[i].collaborativeScore, sequenceScore |-> list[i].sequenceScore, ruleScore |-> list[i].ruleScore, score |-> list[i].score] : i \in DOMAIN list}

\* C26: the fusion yields the same set of records, with the same four
\* sub-scores and the same hybrid score each, when the four scorers settle and
\* their outputs are ingested in any other order than the one written.
C26_Commutative ==
    (unit.fn = "combineScores in order" /\ HasReturned)
        => FusedSet(unit.value.reordered) = FusedSet(unit.value.asWritten)

\* the rule scorer settled and was ingested first, the content scorer last;
\* the lists come out in different orders and hold the same records
C26_Witness ==
    /\ unit.fn = "combineScores in order"
    /\ HasReturned
    /\ unit.args.order = <<4, 3, 2, 1>>
    /\ Len(unit.value.asWritten) = 3
    /\ unit.value.reordered # unit.value.asWritten
    /\ FusedSet(unit.value.reordered) = FusedSet(unit.value.asWritten)

\* the entries of the weight vector, each clamped to >= 0
Clamped(w) == <<RMax(Zero, w.content), RMax(Zero, w.collaborative), RMax(Zero, w.sequence), RMax(Zero, w.rule)>>

\* C27 as stated: normalizeWeights returns each entry clamped to >= 0 and then
\* divided by the sum of the clamped entries (1 when that sum is zero); the
\* result sums to 1 whenever some entry is positive.
C27_AsStated ==
    (unit.fn = "normalizeWeights" /\ HasReturned)
        => LET clamped == Clamped(unit.args.weights)
               total == IF RSum(clamped) = Zero THEN One ELSE RSum(clamped)
           IN  /\ \A i \in 1..4 : WeightsOf(unit.value)[i] = RDiv(clamped[i], total)
               /\ (\E i \in 1..4 : RLt(Zero, clamped[i])) => RSum(WeightsOf(unit.value)) = One

\* calls r1 and r2 had the same (userId, options), both missed the cache,
\* computed their list and wrote it, and nothing was tracked meanwhile
BothComputed(r1, r2) ==
    /\ r1 # r2
    /\ req[r1].pc = "done"
    /\ req[r2].pc = "done"
    /\ req[r1].path = "computed"
    /\ req[r2].path = "computed"
    /\ req[r1].userId = req[r2].userId
    /\ req[r1].options = req[r2].options
    /\ Tracked(log) = <<>>

C29_RejectWritesNothing ==
    [][\A r \in Requests :
          /\ (req[r].pc # "rejected" /\ req'[r].pc = "rejected")
                => /\ cache' = cache
                   /\ "cacheWrite" \notin req[r].did \cup req'[r].did
                   /\ req'[r].result = <<>>
          /\ ("cacheWrite" \notin req[r].did /\ "cacheWrite" \in req'[r].did)
                => /\ req[r].pc = "setex"
                   /\ req'[r].pc = "done"
                   /\ req'[r].result = req[r].result]_vars

\* a call ran through fusion, diversity, cutoff and ranking on a populated
\* catalog, was rejected by the failing cache write, and left no entry
C29_Witness ==
    \E r \in Requests :
        /\ req[r].pc = "rejected"
        /\ req[r].path = "cacheWrite"
        /\ "scorer" \in req[r].did
        /\ catalog = Catalog
        /\ KeyOf(r) \notin DOMAIN cache

\* the ids of a request's candidate items
CandidateIds(q) == {q.availableMovies[i].id : i \in DOMAIN q.availableMovies}

\* no movieId occurs twice in list
DistinctIds(list) == \A i, j \in DOMAIN list : list[i].movieId = list[j].movieId => i = j

\* C30: in a call that missed the cache and computed its list, every movieId
\* of the fused list and of the list to be returned is the id of one of the
\* call's candidates, and no movieId occurs twice.
C30_OnlyCandidates ==
    \A r \in Requests :
        req[r].pc = "setex"
            => /\ MovieIdsIn(req[r].hybridScores) \subseteq CandidateIds(req[r])
               /\ MovieIdsIn(req[r].result) \subseteq CandidateIds(req[r])
               /\ DistinctIds(req[r].hybridScores)
               /\ DistinctIds(req[r].result)

\* MatrixFactorization predicted an id that is no candidate, and the call
\* computed a list of two records
C30_Witness ==
    \E r \in Requests :
        /\ req[r].pc = "setex"
        /\ ForeignMovieId \in MovieIdsIn(req[r].collaborativeScores)
        /\ ForeignMovieId \notin CandidateIds(req[r])
        /\ Len(req[r].result) = 2

====
